---- MODULE Spec2Model ----
(***************************************************************************)
(* Model of the scenario simulation engine of ment-creatorV2               *)
(* (backend/app/services/simulation_service.py).                           *)
(*                                                                         *)
(* Nine specifications share the module.                                   *)
(*                                                                         *)
(* Spec models one SimulationEngine: its fields are the variables, Init is *)
(* the state SimulationEngine.__init__ leaves, and the actions are the     *)
(* calls the service makes on it: engine.start (from start_simulation and  *)
(* reset_simulation, with their start-node resolution) and                 *)
(* engine.execute_action.  The handlers are operators on an engine record  *)
(* so that they can be applied to any engine.                              *)
(*                                                                         *)
(* PauseSpec and StateSpec add pause_simulation / resume_simulation and    *)
(* get_simulation_status to the calls of Spec; ValidateSpec runs           *)
(* validate_simulation on simulations of small scenarios of every shape.   *)
(*                                                                         *)
(* RegistrySpec models SimulationService: the dict active_simulations of   *)
(* one service object and the engines registered in it with the dict and   *)
(* list objects they hold, for two simulations and the methods that act    *)
(* on a registered simulation.                                             *)
(*                                                                         *)
(* LookupSpec has the same state with one simulation, every method of the  *)
(* service, and calls with an id that was never issued.                    *)
(*                                                                         *)
(* HttpSpec models the HTTP endpoint handlers, each of which constructs    *)
(* its own service.                                                        *)
(*                                                                         *)
(* ConcurrentSpec models execute_action coroutines in flight on one        *)
(* engine, scheduled by the event loop; RaceSpec models start, status and  *)
(* stop coroutines in flight on one service.                               *)
(***************************************************************************)
EXTENDS Integers, Sequences, FiniteSets, TLC

VARIABLES
  scenario_data,      \* self.scenario_data: [nodes, connections]
  current_node,       \* self.current_node: a Python value (str or None)
  session_data,       \* self.session_data: dict, string keys -> Python values
  execution_history,  \* self.execution_history: list of execution steps
  start_time,         \* self.start_time
  status,             \* self.status
  now,                \* the wall clock read by time.time() / datetime.utcnow();
                      \* no call depends on it (the times are only recorded),
                      \* and the calls of one run are taken at one instant
  last,               \* the most recent call on the engine and its outcome
  active_simulations, \* SimulationService.active_simulations of the service
                      \* object: simulation_id -> engine
  sessions,           \* the dict objects that engines hold as session_data,
                      \* by address
  histories,          \* the list objects that engines hold as
                      \* execution_history, by address
  issued,             \* the simulation ids start_simulation has returned,
                      \* each with "started" or, after a stop, "stopped"
  calls,              \* the execute_action coroutines in flight
  batch               \* the engine state before the calls in flight and the
                      \* requests issued since

engine_vars ==
  <<current_node, session_data, execution_history, start_time, status>>

registry_vars == <<active_simulations, sessions, histories, issued>>

concurrent_vars == <<calls, batch>>

vars == <<scenario_data, current_node, session_data, execution_history,
          start_time, status, now, last,
          active_simulations, sessions, histories, issued, calls, batch>>

---------------------------------------------------------------------------
(* Bounds *)

MaxHistory == 2

---------------------------------------------------------------------------
(* Python values.  A value is a record [t, s, n]: t is the Python type,    *)
(* s the text of a str, n the number of an int.                            *)

StrV(s) == [t |-> "str", s |-> s, n |-> 0]

IntV(n) == [t |-> "int", s |-> "", n |-> n]

None == [t |-> "NoneType", s |-> "", n |-> 0]

\* True / False
BoolV(b) == [t |-> "bool", s |-> "", n |-> IF b THEN 1 ELSE 0]

\* a float, by its repr
FloatV(repr) == [t |-> "float", s |-> repr, n |-> 0]

\* An empty dict: the function with the empty domain.
EmptyDict == [k \in {} |-> None]

\* dict.get(k, default)
Get(d, k, default) == IF k \in DOMAIN d THEN d[k] ELSE default

\* d[k] = v on a dict
DictSet(d, k, v) == [x \in (DOMAIN d) \cup {k} |-> IF x = k THEN v ELSE d[x]]

\* Python truthiness of a value (if x:)
Truthy(v) ==
  CASE v.t = "str" -> v.s # ""
    [] v.t = "int" -> v.n # 0
    [] v.t = "bool" -> v.n # 0
    [] v.t = "float" -> v.s \notin {"0.0", "-0.0"}
    [] OTHER -> FALSE

DigitChars == <<"0", "1", "2", "3", "4", "5", "6", "7", "8", "9">>

IsDigit(c) == \E i \in 1..10 : DigitChars[i] = c

RECURSIVE NatToStr(_)
NatToStr(n) ==
  IF n < 10 THEN DigitChars[n + 1]
  ELSE NatToStr(n \div 10) \o DigitChars[(n % 10) + 1]

\* str(v)
str(v) ==
  CASE v.t = "str" -> v.s
    [] v.t = "int" -> IF v.n < 0 THEN "-" \o NatToStr(0 - v.n) ELSE NatToStr(v.n)
    [] v.t = "bool" -> IF v.n # 0 THEN "True" ELSE "False"
    [] v.t = "float" -> v.s
    [] OTHER -> "None"

\* the i-th character of a string, as a one-character string
Ch(s, i) == SubSeq(s, i, i)

\* datetime.utcnow().isoformat() at clock value t
isoformat(t) == StrV("1970-01-01T00:00:" \o (IF t < 10 THEN "0" ELSE "") \o NatToStr(t))

---------------------------------------------------------------------------
(* NodeType (app/utils/constants.py) *)

START == "start"

MESSAGE == "message"

BRANCH == "branch"

TRANSFER == "transfer"

END == "end"

INPUT == "input"

---------------------------------------------------------------------------
(* Scenario snapshots: the dict {nodes, connections} that the engine reads  *)
(* with scenario_data.get.  A node is {node_id, node_type, name, config},  *)
(* a connection {source_node_id, target_node_id}; both lists keep the      *)
(* order in which they were supplied.  node_id is unique within a scenario *)
(* (uq_scenario_node_id); connection endpoints are non-empty strings that  *)
(* named a node when the connection was created and cannot be updated; a   *)
(* node deleted later leaves its connections behind.  config is a dict; a  *)
(* branch entry always has the fields key, label and target               *)
(* (validate_scenario_node_config), with any value.                        *)

Node(id, type, config) ==
  [node_id |-> StrV(id), node_type |-> type, name |-> id, config |-> config]

Connection(src, tgt) ==
  [source_node_id |-> StrV(src), target_node_id |-> StrV(tgt)]

Branch(key, target) == [key |-> key, label |-> key, target |-> target]

\* An IVR flow with one node of every type.
ScenarioMain ==
  [nodes |-> <<
     Node("s", START, EmptyDict),
     Node("m", MESSAGE, [text |-> StrV("hello")]),
     Node("b", BRANCH, [branches |-> <<
        Branch(IntV(2), StrV("t")),
        Branch(StrV("2"), StrV("e")),
        Branch(StrV("3"), None) >>]),
     Node("i", INPUT, [input_type |-> StrV("phone")]),
     Node("m2", MESSAGE, [text |-> StrV("bye")]),
     Node("t", TRANSFER, [target |-> StrV("sales")]),
     Node("e", END, EmptyDict) >>,
   connections |-> <<
     Connection("s", "m"),
     Connection("m", "b"),
     Connection("m", "e"),
     Connection("i", "m2") >>]

\* A draft without a start node, whose node "gone" was deleted after the
\* connection m -> gone was created, with input nodes of the other input
\* types and a transfer node whose config names no target.
ScenarioDraft ==
  [nodes |-> <<
     Node("m", MESSAGE, [text |-> StrV("hello")]),
     Node("i", INPUT, [input_type |-> StrV("number")]),
     Node("i2", INPUT, EmptyDict),
     Node("i3", INPUT, [input_type |-> StrV("email")]),
     Node("t", TRANSFER, EmptyDict),
     Node("e", END, EmptyDict) >>,
   connections |-> <<
     Connection("m", "gone"),
     Connection("i", "e"),
     Connection("i3", "i2") >>]

Scenarios == {ScenarioMain, ScenarioDraft}

NodeIds(sd) == {sd.nodes[k].node_id : k \in 1..Len(sd.nodes)}

---------------------------------------------------------------------------
(* Inputs of the calls *)

\* start_node_id of start_simulation / reset_simulation: omitted, empty,
\* a node of the scenario, or an id that names no node.
StartNodeIds(sd) == {None, StrV(""), StrV("zz")} \cup NodeIds(sd)

Request(action_type, value, additional_data) ==
  [action_type |-> action_type, value |-> value, additional_data |-> additional_data]

\* The requests of execute_action: every action type, with values that
\* match and miss the branch keys and that pass and fail each input type.
ActionRequests ==
  {Request("continue", None, EmptyDict),
   Request("select", StrV("2"), None),
   Request("select", StrV("3"), None),
   Request("select", StrV("9"), None),
   Request("input", StrV("010-1234-5678"), None),
   Request("input", StrV(" 2.5 "), None),
   Request("input", StrV("not-a-phone"), None),
   Request("input", StrV(" "), None),
   Request("input", IntV(2), None),
   Request("input", None, None),
   Request("transfer", None, [reason |-> StrV("agent")]),
   Request("end", None, None)}

---------------------------------------------------------------------------
(* SimulationEngine.  An engine is the record of its fields; a call        *)
(* returns the engine it leaves and what it raised ("" when it returned).  *)

Returned(e) == [e |-> e, raised |-> "", msg |-> ""]

Raised(e, exc, msg) == [e |-> e, raised |-> exc, msg |-> msg]

\* SimulationEngine.__init__
Engine(sd, t) ==
  [scenario_data |-> sd,
   current_node |-> None,
   session_data |-> EmptyDict,
   execution_history |-> <<>>,
   start_time |-> t,
   status |-> "idle"]

\* Faulty variant of start: the session data of the previous run is kept.
start_keeps_session(e, start_node_id, t) ==
  [e EXCEPT !.current_node = start_node_id,
            !.status = "active",
            !.execution_history = <<>>,
            !.start_time = t]

\* SimulationEngine.start
start(e, start_node_id, t) ==
  [e EXCEPT !.current_node = start_node_id,
            !.status = "active",
            !.session_data = EmptyDict,
            !.execution_history = <<>>,
            !.start_time = t]

\* the first index of a non-empty set of list indexes: where a for-loop
\* that returns or breaks on its first hit stops
First(hits) == CHOOSE k \in hits : \A j \in hits : k <= j

\* SimulationEngine._get_node_data: the first node with that node_id, or None
_get_node_data(e, node_id) ==
  LET nodes == e.scenario_data.nodes
      hits == {k \in 1..Len(nodes) : nodes[k].node_id = node_id}
  IN IF hits = {} THEN None
     ELSE nodes[First(hits)]

\* Faulty variant of _get_next_node: the loop does not stop at its first
\* hit, so the last connection that leaves the node wins.
_get_next_node_last(e, current_node_id) ==
  LET connections == e.scenario_data.connections
      hits == {k \in 1..Len(connections) :
                 connections[k].source_node_id = current_node_id}
  IN IF hits = {} THEN None
     ELSE connections[CHOOSE k \in hits : \A j \in hits : k >= j].target_node_id

\* SimulationEngine._get_next_node: the target of the first connection, in
\* list order, whose source is current_node_id, or None
_get_next_node(e, current_node_id) ==
  LET connections == e.scenario_data.connections
      hits == {k \in 1..Len(connections) :
                 connections[k].source_node_id = current_node_id}
  IN IF hits = {} THEN None
     ELSE connections[First(hits)].target_node_id

---------------------------------------------------------------------------
(* SimulationEngine._validate_input *)

Whitespace == {" ", "\t", "\n", "\r", "\f"}

\* str.strip()
RECURSIVE LStrip(_)
LStrip(s) ==
  IF Len(s) > 0 /\ Ch(s, 1) \in Whitespace THEN LStrip(Tail(s)) ELSE s

RECURSIVE RStrip(_)
RStrip(s) ==
  IF Len(s) > 0 /\ Ch(s, Len(s)) \in Whitespace
  THEN RStrip(SubSeq(s, 1, Len(s) - 1)) ELSE s

strip(s) == RStrip(LStrip(s))

\* the end of the longest run digit ("_"? digit)* of s that starts at i;
\* i - 1 when s has no digit at i
RECURSIVE DigitPartEnd(_, _)
DigitPartEnd(s, i) ==
  IF i > Len(s) \/ ~IsDigit(Ch(s, i)) THEN i - 1
  ELSE IF i + 1 <= Len(s) /\ IsDigit(Ch(s, i + 1)) THEN DigitPartEnd(s, i + 1)
  ELSE IF i + 2 <= Len(s) /\ Ch(s, i + 1) = "_" /\ IsDigit(Ch(s, i + 2))
       THEN DigitPartEnd(s, i + 2)
  ELSE i

LowerCh(c) ==
  CASE c = "I" -> "i" [] c = "N" -> "n" [] c = "F" -> "f" [] c = "T" -> "t"
    [] c = "Y" -> "y" [] c = "A" -> "a" [] OTHER -> c

RECURSIVE Lower(_)
Lower(s) == IF s = "" THEN "" ELSE LowerCh(Ch(s, 1)) \o Lower(Tail(s))

\* [eE] [+-]? digitpart, or nothing, from position i to the end of s
IsExponentOrEnd(s, i) ==
  \/ i = Len(s) + 1
  \/ /\ i <= Len(s)
     /\ Ch(s, i) \in {"e", "E"}
     /\ LET j == IF i + 1 <= Len(s) /\ Ch(s, i + 1) \in {"+", "-"}
                 THEN i + 2 ELSE i + 1
        IN DigitPartEnd(s, j) = Len(s) /\ j <= Len(s)

\* digitpart ["." [digitpart]] [exponent]  |  "." digitpart [exponent]
IsFloatNumber(s) ==
  LET a == DigitPartEnd(s, 1)
  IN IF a >= 1
     THEN IF a + 1 <= Len(s) /\ Ch(s, a + 1) = "."
          THEN LET b == DigitPartEnd(s, a + 2)
               IN IsExponentOrEnd(s, (IF b >= a + 2 THEN b ELSE a + 1) + 1)
          ELSE IsExponentOrEnd(s, a + 1)
     ELSE /\ Len(s) >= 2
          /\ Ch(s, 1) = "."
          /\ LET b == DigitPartEnd(s, 2)
             IN b >= 2 /\ IsExponentOrEnd(s, b + 1)

\* float(value) returns (does not raise ValueError or TypeError)
FloatParses(value) ==
  CASE value.t \in {"int", "bool", "float"} -> TRUE
    [] value.t = "str" ->
         LET s0 == strip(value.s)
             s == IF Len(s0) > 0 /\ Ch(s0, 1) \in {"+", "-"} THEN Tail(s0) ELSE s0
         IN \/ Lower(s) \in {"inf", "infinity", "nan"}
            \/ IsFloatNumber(s)
    [] OTHER -> FALSE

\* re.match(r"^\d{2,3}-\d{3,4}-\d{4}$", s): "$" also matches before a
\* newline that ends the string
PhoneMatches(s) ==
  \E body \in {s} \cup (IF Len(s) > 0 /\ Ch(s, Len(s)) = "\n"
                        THEN {SubSeq(s, 1, Len(s) - 1)} ELSE {}) :
    \E a \in 2..3, b \in 3..4 :
      /\ Len(body) = a + b + 6
      /\ \A k \in 1..Len(body) :
           IF k = a + 1 \/ k = a + b + 2 THEN Ch(body, k) = "-"
           ELSE IsDigit(Ch(body, k))

\* Faulty variant of _validate_input: every value passes.
_validate_input_skipped(value, input_type, config) == TRUE

_validate_input(value, input_type, config) ==
  IF input_type = StrV("text")
  THEN value.t = "str" /\ Len(strip(value.s)) > 0
  ELSE IF input_type = StrV("number") THEN FloatParses(value)
  ELSE IF input_type = StrV("phone") THEN PhoneMatches(str(value))
  ELSE TRUE

---------------------------------------------------------------------------
(* The node handlers of SimulationEngine.execute_action.  Each returns the *)
(* current state (modelled by Returned) unless it raises.                  *)

\* Faulty variant of _handle_message_node: continue moves to the next node
\* and completes the simulation there.
_handle_message_node_completes(e, node_data, action_type, value) ==
  IF action_type = "continue"
  THEN LET next_node == _get_next_node(e, e.current_node)
       IN IF Truthy(next_node)
          THEN Returned([e EXCEPT !.current_node = next_node, !.status = "completed"])
          ELSE Returned([e EXCEPT !.status = "completed"])
  ELSE Returned(e)

_handle_message_node(e, node_data, action_type, value) ==
  IF action_type = "continue"
  THEN LET next_node == _get_next_node(e, e.current_node)
       IN IF Truthy(next_node)
          THEN Returned([e EXCEPT !.current_node = next_node])
          ELSE Returned([e EXCEPT !.status = "completed"])
  ELSE Returned(e)

\* Faulty variant of the loop of _handle_branch_node: without the break the
\* last matching branch wins.
find_selected_branch_last(branches, value) ==
  LET hits == {k \in 1..Len(branches) : str(branches[k].key) = str(value)}
  IN IF hits = {} THEN None
     ELSE branches[CHOOSE k \in hits : \A j \in hits : k >= j]

\* the loop of _handle_branch_node: the first branch whose key, as a string,
\* equals the value as a string, or None
find_selected_branch(branches, value) ==
  LET hits == {k \in 1..Len(branches) : str(branches[k].key) = str(value)}
  IN IF hits = {} THEN None ELSE branches[First(hits)]

_handle_branch_node(e, node_data, action_type, value) ==
  IF action_type = "select"
  THEN LET config == node_data.config
           branches == Get(config, "branches", <<>>)
           selected_branch == find_selected_branch(branches, value)
       IN IF selected_branch # None
          THEN LET target_node == selected_branch.target
               IN IF Truthy(target_node)
                  THEN Returned([e EXCEPT
                         !.current_node = target_node,
                         !.session_data =
                            DictSet(@, "branch_" \o str(target_node) \o "_selection", value)])
                  ELSE Returned(e)
          ELSE Raised(e, "SimulationError", "invalid branch selection")
  ELSE Returned(e)

_handle_input_node(e, node_data, action_type, value) ==
  IF action_type = "input"
  THEN LET config == node_data.config
           input_type == Get(config, "input_type", StrV("text"))
       IN IF _validate_input(value, input_type, config)
          THEN LET e1 == [e EXCEPT !.session_data =
                            DictSet(@, "input_" \o str(e.current_node), value)]
                   next_node == _get_next_node(e1, e1.current_node)
               IN IF Truthy(next_node)
                  THEN Returned([e1 EXCEPT !.current_node = next_node])
                  ELSE Returned([e1 EXCEPT !.status = "completed"])
          ELSE Raised(e, "SimulationError", "invalid input")
  ELSE Returned(e)

\* Faulty variant of _handle_transfer_node: the configured target is
\* ignored.
_handle_transfer_node_default_target(e, node_data, action_type, value, t) ==
  IF action_type = "transfer"
  THEN Returned([e EXCEPT
         !.session_data = DictSet(DictSet(@, "transfer_target", StrV("general")),
                                  "transfer_time", isoformat(t)),
         !.status = "transferred"])
  ELSE Returned(e)

_handle_transfer_node(e, node_data, action_type, value, t) ==
  IF action_type = "transfer"
  THEN LET config == node_data.config
           target == Get(config, "target", StrV("general"))
       IN Returned([e EXCEPT
            !.session_data = DictSet(DictSet(@, "transfer_target", target),
                                     "transfer_time", isoformat(t)),
            !.status = "transferred"])
  ELSE Returned(e)

\* Faulty variant of _handle_end_node: only the action "end" completes.
_handle_end_node_end_only(e, node_data, action_type, value, t) ==
  IF action_type = "end"
  THEN Returned([e EXCEPT
         !.status = "completed",
         !.session_data = DictSet(@, "completion_time", isoformat(t))])
  ELSE Returned(e)

_handle_end_node(e, node_data, action_type, value, t) ==
  Returned([e EXCEPT
    !.status = "completed",
    !.session_data = DictSet(@, "completion_time", isoformat(t))])

\* additional_data or {}
OrEmptyDict(additional_data) ==
  IF additional_data = None THEN EmptyDict ELSE additional_data

\* Faulty variant of the guard: a transferred simulation still runs.
not_active_lax(e) == e.status \notin {"active", "transferred"}

\* Faulty variant of the guard: a completed simulation still runs.
not_active_completed_runs(e) == e.status \notin {"active", "completed"}

\* Faulty variant of the guard: a paused simulation does not run.
not_active_or_paused(e) ==
  \/ e.status # "active"
  \/ Get(e.session_data, "paused", BoolV(FALSE)) = BoolV(TRUE)

\* the guard of execute_action: self.status != "active"
not_active(e) == e.status # "active"

\* Faulty variant of the append: the step is not recorded.
record_step_dropped(e, execution_step) == e

\* Faulty variant of the append: the step is put at the front of the list.
record_step_at_front(e, execution_step) ==
  [e EXCEPT !.execution_history = <<execution_step>> \o @]

\* self.execution_history.append(execution_step)
record_step(e, execution_step) ==
  [e EXCEPT !.execution_history = Append(@, execution_step)]

\* Faulty variant of execute_action: a node of type start is dispatched
\* like a message node, so that continue leaves it.
execute_action_from_start(e, action_type, value, additional_data, t) ==
  IF not_active(e)
  THEN Raised(e, "SimulationError", "not active")
  ELSE LET current_node_data == _get_node_data(e, e.current_node)
       IN IF current_node_data = None
          THEN Raised(e, "SimulationError", "node not found")
          ELSE LET execution_step ==
                     [timestamp |-> t,
                      node_id |-> e.current_node,
                      action_type |-> action_type,
                      value |-> value,
                      additional_data |-> OrEmptyDict(additional_data)]
                   e1 == record_step(e, execution_step)
                   node_type == current_node_data.node_type
               IN CASE node_type \in {MESSAGE, START} ->
                         _handle_message_node(e1, current_node_data, action_type, value)
                    [] node_type = BRANCH ->
                         _handle_branch_node(e1, current_node_data, action_type, value)
                    [] node_type = INPUT ->
                         _handle_input_node(e1, current_node_data, action_type, value)
                    [] node_type = TRANSFER ->
                         _handle_transfer_node(e1, current_node_data, action_type, value, t)
                    [] node_type = END ->
                         _handle_end_node(e1, current_node_data, action_type, value, t)
                    [] OTHER ->
                         Raised(e1, "SimulationError", "unsupported node type")

\* SimulationEngine.execute_action
execute_action(e, action_type, value, additional_data, t) ==
  IF not_active(e)
  THEN Raised(e, "SimulationError", "not active")
  ELSE LET current_node_data == _get_node_data(e, e.current_node)
       IN IF current_node_data = None
          THEN Raised(e, "SimulationError", "node not found")
          ELSE LET execution_step ==
                     [timestamp |-> t,
                      node_id |-> e.current_node,
                      action_type |-> action_type,
                      value |-> value,
                      additional_data |-> OrEmptyDict(additional_data)]
                   e1 == record_step(e, execution_step)
                   node_type == current_node_data.node_type
               IN CASE node_type = MESSAGE ->
                         _handle_message_node(e1, current_node_data, action_type, value)
                    [] node_type = BRANCH ->
                         _handle_branch_node(e1, current_node_data, action_type, value)
                    [] node_type = INPUT ->
                         _handle_input_node(e1, current_node_data, action_type, value)
                    [] node_type = TRANSFER ->
                         _handle_transfer_node(e1, current_node_data, action_type, value, t)
                    [] node_type = END ->
                         _handle_end_node(e1, current_node_data, action_type, value, t)
                    [] OTHER ->
                         Raised(e1, "SimulationError", "unsupported node type")

---------------------------------------------------------------------------
(* SimulationService: the calls that reach the engine *)

\* the default start node of start_simulation / reset_simulation:
\* start_nodes[0].node_id, or None when there is no node of type start
DefaultStartNode(sd) ==
  LET hits == {k \in 1..Len(sd.nodes) : sd.nodes[k].node_type = START}
  IN IF hits = {} THEN None
     ELSE sd.nodes[First(hits)].node_id

\* SimulationService.execute_action: every exception of the engine is
\* re-raised as SimulationError
Service_execute_action(e, action_type, value, additional_data, t) ==
  LET r == execute_action(e, action_type, value, additional_data, t)
  IN IF r.raised = "" THEN r ELSE [r EXCEPT !.raised = "SimulationError"]

---------------------------------------------------------------------------
(* The state machine *)

Self ==
  [scenario_data |-> scenario_data,
   current_node |-> current_node,
   session_data |-> session_data,
   execution_history |-> execution_history,
   start_time |-> start_time,
   status |-> status]

\* the engine state a call started from
Snapshot(e) ==
  [current_node |-> e.current_node,
   status |-> e.status,
   session_data |-> e.session_data,
   execution_history |-> e.execution_history]

\* the node and status a call started from
Brief(e) ==
  [current_node |-> e.current_node,
   status |-> e.status,
   session_data |-> EmptyDict,
   execution_history |-> <<>>]

\* "last" names the call of the latest step: the operation, its arguments,
\* what it raised, and the state it started from (pre: a Snapshot for
\* execute_action, a Brief for the other operations).
Call(op, start_node_id, action_type, value, r, pre) ==
  [op |-> op, start_node_id |-> start_node_id, action_type |-> action_type,
   value |-> value, raised |-> r.raised, msg |-> r.msg, pre |-> pre]

SetEngine(e) ==
  /\ current_node' = e.current_node
  /\ session_data' = e.session_data
  /\ execution_history' = e.execution_history
  /\ start_time' = e.start_time
  /\ status' = e.status
  /\ UNCHANGED scenario_data

\* SimulationService.__init__: no simulation is registered, and no dict or
\* list of an engine exists
NoRegistry ==
  /\ active_simulations = EmptyDict
  /\ sessions = <<>>
  /\ histories = <<>>
  /\ issued = EmptyDict

\* no coroutine is in flight
NoCalls ==
  /\ calls = <<>>
  /\ batch = <<>>

\* SimulationEngine.__init__
NoEngine ==
  /\ current_node = None
  /\ session_data = EmptyDict
  /\ execution_history = <<>>
  /\ start_time = 0
  /\ status = "idle"

Init ==
  /\ scenario_data \in Scenarios
  /\ now = 0
  /\ NoEngine
  /\ last = Call("__init__", None, "", None, Returned(Self), Brief(Self))
  /\ NoRegistry
  /\ NoCalls

\* start_simulation(scenario_id, start_node_id): resolve the start node,
\* construct the engine and start it
StartSimulation(start_node_id) ==
  /\ status = "idle"
  /\ LET resolved == IF ~Truthy(start_node_id)
                     THEN DefaultStartNode(scenario_data) ELSE start_node_id
         r == IF ~Truthy(start_node_id) /\ resolved = None
              THEN Raised(Self, "ValidationError", "no start node")
              ELSE Returned(start(Engine(scenario_data, now), resolved, now))
     IN /\ SetEngine(r.e)
        /\ last' = Call("start_simulation", start_node_id, "", None, r, Brief(Self))
  /\ UNCHANGED <<now, registry_vars, concurrent_vars>>

\* reset_simulation(simulation_id, start_node_id) on the registered engine
ResetSimulation(start_node_id) ==
  /\ status # "idle"
  /\ LET resolved == IF ~Truthy(start_node_id)
                     THEN DefaultStartNode(scenario_data) ELSE start_node_id
         r == IF ~Truthy(start_node_id) /\ resolved = None
              THEN Raised(Self, "ValidationError", "no start node")
              ELSE Returned(start(Self, resolved, now))
     IN /\ SetEngine(r.e)
        /\ last' = Call("reset_simulation", start_node_id, "", None, r, Brief(Self))
  /\ UNCHANGED <<now, registry_vars, concurrent_vars>>

\* execute_action(simulation_id, action_type, value, additional_data) on
\* the registered engine
ExecuteAction(action_type, value, additional_data) ==
  /\ status # "idle"
  /\ LET r == Service_execute_action(Self, action_type, value, additional_data, now)
     IN /\ Len(r.e.execution_history) <= MaxHistory
        /\ SetEngine(r.e)
        /\ last' = Call("execute_action", None, action_type, value, r, Snapshot(Self))
  /\ UNCHANGED <<now, registry_vars, concurrent_vars>>

Next ==
  \/ \E start_node_id \in StartNodeIds(scenario_data) : StartSimulation(start_node_id)
  \/ \E start_node_id \in StartNodeIds(scenario_data) : ResetSimulation(start_node_id)
  \/ \E req \in ActionRequests :
       ExecuteAction(req.action_type, req.value, req.additional_data)

Spec == Init /\ [][Next]_vars

---------------------------------------------------------------------------
(* Properties.  "last" names the call that led to the state, last.pre the  *)
(* engine state the call started from.                                     *)

Executed == last.op = "execute_action"

Started == last.op \in {"start_simulation", "reset_simulation"}

\* the node of the scenario with that id (None when there is none) and its type
NodeAt(node_id) ==
  IF \E k \in 1..Len(scenario_data.nodes) : scenario_data.nodes[k].node_id = node_id
  THEN CHOOSE n \in {scenario_data.nodes[k] : k \in 1..Len(scenario_data.nodes)} :
         n.node_id = node_id
  ELSE None

TypeAt(node_id) == IF NodeAt(node_id) = None THEN "" ELSE NodeAt(node_id).node_type

\* the call was an ExecuteAction on an active simulation whose node has that type
ExecutedAt(node_type) ==
  /\ Executed
  /\ last.pre.status = "active"
  /\ TypeAt(last.pre.current_node) = node_type

\* the call left the node, the status and the session data as they were
StateKept ==
  /\ current_node = last.pre.current_node
  /\ status = last.pre.status
  /\ session_data = last.pre.session_data

\* C1: in every state of a started simulation, current_node_id is the
\* node_id of a node of the scenario graph.
C1_CurrentNodeInGraph ==
  status # "idle" => current_node \in NodeIds(scenario_data)

\* C2 (as claimed): every failing ExecuteAction appends exactly one entry,
\* carrying the attempted action_type and value, to execution_history.
\* Stated for the simulations whose current node is in the scenario graph,
\* the ones C1 allows: the claim fails there too, on a simulation that is
\* not active.
C2_EveryFailureAppends ==
  (Executed /\ last.raised # "" /\ last.pre.current_node \in NodeIds(scenario_data)) =>
    /\ Len(execution_history) = Len(last.pre.execution_history) + 1
    /\ execution_history[Len(execution_history)].action_type = last.action_type
    /\ execution_history[Len(execution_history)].value = last.value

\* C2 (amended): a failing ExecuteAction on an active simulation whose
\* current node is in the scenario appends exactly one entry, with the
\* node it was issued at and the attempted action_type and value, and keeps
\* the earlier entries; a failing ExecuteAction on a simulation that is not
\* active, or whose current node is not in the scenario, appends nothing.
C2_FailureAppendsWhenDispatched ==
  (Executed /\ last.raised # "") =>
    IF /\ last.pre.status = "active"
       /\ last.pre.current_node \in NodeIds(scenario_data)
    THEN /\ Len(execution_history) = Len(last.pre.execution_history) + 1
         /\ SubSeq(execution_history, 1, Len(execution_history) - 1)
              = last.pre.execution_history
         /\ execution_history[Len(execution_history)].node_id = last.pre.current_node
         /\ execution_history[Len(execution_history)].action_type = last.action_type
         /\ execution_history[Len(execution_history)].value = last.value
    ELSE execution_history = last.pre.execution_history

\* a failing ExecuteAction that was recorded: an invalid branch selection
C2_Witness ==
  /\ Executed
  /\ last.raised = "SimulationError"
  /\ last.msg = "invalid branch selection"
  /\ Len(execution_history) = Len(last.pre.execution_history) + 1
  /\ execution_history[Len(execution_history)].value = StrV("9")

\* the action type each node type accepts (the dispatch table)
AcceptedAction(node_type) ==
  CASE node_type = MESSAGE -> "continue"
    [] node_type = BRANCH -> "select"
    [] node_type = INPUT -> "input"
    [] node_type = TRANSFER -> "transfer"
    [] OTHER -> ""

\* C3: on an active simulation at a message, branch, input or transfer
\* node, ExecuteAction with an action_type other than the accepted one
\* fails with SimulationError.
C3_MismatchedActionFails ==
  (/\ Executed
   /\ last.pre.status = "active"
   /\ TypeAt(last.pre.current_node) \in {MESSAGE, BRANCH, INPUT, TRANSFER}
   /\ last.action_type # AcceptedAction(TypeAt(last.pre.current_node)))
  => last.raised = "SimulationError"

\* C4: ExecuteAction on a simulation that is not active fails with
\* SimulationError and leaves current_node_id, status and session_data
\* unchanged.
C4_InactiveRejected ==
  (Executed /\ last.pre.status # "active") =>
    /\ last.raised = "SimulationError"
    /\ StateKept

\* an ExecuteAction was issued on a transferred simulation
C4_Witness ==
  /\ Executed
  /\ last.pre.status = "transferred"
  /\ last.action_type = "transfer"
  /\ last.raised = "SimulationError"

\* the least index of a non-empty set of list indexes
Least(S) == CHOOSE k \in S : \A j \in S : k <= j

\* the indexes of the branches of the node the call was issued at whose
\* key is string-equal to the value of the call
MatchingBranches ==
  LET branches == NodeAt(last.pre.current_node).config.branches
  IN {k \in 1..Len(branches) : str(branches[k].key) = str(last.value)}

FirstMatchingTarget ==
  NodeAt(last.pre.current_node).config.branches[Least(MatchingBranches)].target

\* C5 (as claimed): select v at a branch node moves to the target of the
\* first entry whose key is string-equal to v and records v under
\* "branch_<new current_node_id>_selection"; with no such entry the call
\* fails and changes nothing.
C5_SelectMovesToFirstMatch ==
  (ExecutedAt(BRANCH) /\ last.action_type = "select") =>
    IF MatchingBranches # {}
    THEN /\ current_node = FirstMatchingTarget
         /\ ("branch_" \o str(current_node) \o "_selection") \in DOMAIN session_data
         /\ session_data["branch_" \o str(current_node) \o "_selection"] = last.value
    ELSE last.raised = "SimulationError" /\ StateKept

\* C5 (amended): as claimed when the first matching entry has a non-empty
\* target; when its target is null or empty the call succeeds and leaves
\* current_node_id, status and session_data unchanged.
C5_SelectMovesToFirstMatchWithTarget ==
  (ExecutedAt(BRANCH) /\ last.action_type = "select") =>
    IF MatchingBranches # {}
    THEN /\ last.raised = ""
         /\ IF Truthy(FirstMatchingTarget)
            THEN /\ current_node = FirstMatchingTarget
                 /\ status = "active"
                 /\ session_data =
                      DictSet(last.pre.session_data,
                              "branch_" \o str(FirstMatchingTarget) \o "_selection",
                              last.value)
            ELSE StateKept
    ELSE last.raised = "SimulationError" /\ StateKept

\* select "2" at a branch node with two entries whose keys read "2": the
\* first one (key 2, target t) wins and the key is named after the target
C5_Witness ==
  /\ ExecutedAt(BRANCH)
  /\ last.action_type = "select"
  /\ Cardinality(MatchingBranches) = 2
  /\ current_node = StrV("t")
  /\ "branch_t_selection" \in DOMAIN session_data
  /\ session_data["branch_t_selection"] = StrV("2")

\* the values of the requests that each input type accepts: text a string
\* that is not blank, number what float() parses, phone what matches
\* ^\d{2,3}-\d{3,4}-\d{4}$, any other type everything
InputValues ==
  {StrV("010-1234-5678"), StrV(" 2.5 "), StrV("not-a-phone"), StrV(" "), IntV(2), None}

ValidInputValues(input_type) ==
  CASE input_type = StrV("text") ->
         {StrV("010-1234-5678"), StrV(" 2.5 "), StrV("not-a-phone")}
    [] input_type = StrV("number") -> {StrV(" 2.5 "), IntV(2)}
    [] input_type = StrV("phone") -> {StrV("010-1234-5678")}
    [] OTHER -> InputValues

\* the input type of the node the call was issued at ("text" when the
\* config names none)
InputTypeAt(node_id) ==
  LET config == NodeAt(node_id).config
  IN IF "input_type" \in DOMAIN config THEN config.input_type ELSE StrV("text")

\* the indexes of the connections that leave the node
Outgoing(node_id) ==
  {k \in 1..Len(scenario_data.connections) :
     scenario_data.connections[k].source_node_id = node_id}

\* the call advanced along the first outgoing connection of the node it was
\* issued at, or completed the simulation there when the node has none
Advanced ==
  IF Outgoing(last.pre.current_node) # {}
  THEN /\ current_node =
            scenario_data.connections[Least(Outgoing(last.pre.current_node))].target_node_id
       /\ status = "active"
  ELSE /\ current_node = last.pre.current_node
       /\ status = "completed"

\* C6: input v at an input node N: a valid v is stored under "input_N" and
\* the simulation advances along N's first connection (or completes); an
\* invalid v fails with SimulationError and changes neither the node, the
\* status nor the session data.
C6_InputValidated ==
  (ExecutedAt(INPUT) /\ last.action_type = "input" /\ last.value \in InputValues) =>
    IF last.value \in ValidInputValues(InputTypeAt(last.pre.current_node))
    THEN /\ last.raised = ""
         /\ session_data =
              DictSet(last.pre.session_data,
                      "input_" \o str(last.pre.current_node), last.value)
         /\ Advanced
    ELSE last.raised = "SimulationError" /\ StateKept

\* an invalid phone number was rejected at a phone input node
C6_Witness ==
  /\ ExecutedAt(INPUT)
  /\ last.action_type = "input"
  /\ InputTypeAt(last.pre.current_node) = StrV("phone")
  /\ last.value = StrV("not-a-phone")
  /\ last.raised = "SimulationError"
  /\ "input_i" \notin DOMAIN session_data

\* C7: continue at a message node M moves to the target of the first
\* connection, in list order, that leaves M and the status stays active;
\* without such a connection the node stays M and the status becomes
\* completed.
C7_ContinueTakesFirstConnection ==
  (ExecutedAt(MESSAGE) /\ last.action_type = "continue") =>
    /\ last.raised = ""
    /\ Advanced
    /\ session_data = last.pre.session_data

\* continue at a message node with two outgoing connections took the first
C7_Witness ==
  /\ ExecutedAt(MESSAGE)
  /\ last.action_type = "continue"
  /\ Cardinality(Outgoing(last.pre.current_node)) = 2
  /\ current_node = StrV("b")
  /\ status = "active"

\* C8: transfer at a transfer node sets the status to transferred, stores
\* config.target ("general" when the config has none) under
\* "transfer_target", records "transfer_time" and keeps current_node_id.
C8_TransferRecorded ==
  (ExecutedAt(TRANSFER) /\ last.action_type = "transfer") =>
    LET config == NodeAt(last.pre.current_node).config
    IN /\ last.raised = ""
       /\ status = "transferred"
       /\ current_node = last.pre.current_node
       /\ DOMAIN session_data =
            (DOMAIN last.pre.session_data) \cup {"transfer_target", "transfer_time"}
       /\ session_data["transfer_target"] =
            (IF "target" \in DOMAIN config THEN config.target ELSE StrV("general"))
       /\ session_data["transfer_time"] = isoformat(now)

\* a transfer whose node config names the target "sales"
C8_Witness ==
  /\ ExecutedAt(TRANSFER)
  /\ last.action_type = "transfer"
  /\ status = "transferred"
  /\ session_data["transfer_target"] = StrV("sales")

\* C9: at an end node ExecuteAction with any action_type succeeds, sets the
\* status to completed, records "completion_time" and keeps current_node_id.
C9_EndCompletes ==
  ExecutedAt(END) =>
    /\ last.raised = ""
    /\ status = "completed"
    /\ current_node = last.pre.current_node
    /\ session_data =
         DictSet(last.pre.session_data, "completion_time", isoformat(now))

\* an action other than "end" completed the simulation at an end node
C9_Witness ==
  /\ ExecutedAt(END)
  /\ last.action_type = "select"
  /\ status = "completed"
  /\ "completion_time" \in DOMAIN session_data

\* C10: after Start(startNodeId) the engine has current_node_id =
\* startNodeId, status active, empty session_data and empty
\* execution_history, whatever its state was before.
C10_StartResets ==
  (Started /\ last.raised = "") =>
    /\ Truthy(last.start_node_id) => current_node = last.start_node_id
    /\ status = "active"
    /\ session_data = EmptyDict
    /\ execution_history = <<>>
    /\ start_time = now

\* a transferred simulation (its session data and history not empty) was
\* restarted at another node
C10_Witness ==
  /\ last.op = "reset_simulation"
  /\ last.raised = ""
  /\ last.pre.status = "transferred"
  /\ last.start_node_id = StrV("m")
  /\ current_node = StrV("m")
  /\ last.pre.current_node # current_node

---------------------------------------------------------------------------
(* SimulationEngine._get_current_state and what it reports *)

\* SimulationEngine._get_available_actions.  The labels, Korean texts in
\* the source, are given in English.
_get_available_actions(node_data) ==
  IF node_data = None THEN <<>>
  ELSE LET node_type == node_data.node_type
           config == node_data.config
       IN CASE node_type = MESSAGE -> << [type |-> "continue", label |-> "continue"] >>
            [] node_type = BRANCH ->
                 LET branches == Get(config, "branches", <<>>)
                 IN [k \in 1..Len(branches) |->
                       [type |-> "select",
                        key |-> branches[k].key,
                        label |-> branches[k].label]]
            [] node_type = INPUT ->
                 << [type |-> "input",
                     input_type |-> Get(config, "input_type", StrV("text")),
                     label |-> Get(config, "prompt", StrV("enter a value"))] >>
            [] node_type = TRANSFER -> << [type |-> "transfer", label |-> "transfer to agent"] >>
            [] node_type = END -> << [type |-> "end", label |-> "end"] >>
            [] OTHER -> <<>>

\* Faulty variant of _get_current_state: a simulation that has ended
\* offers no action.
_get_current_state_active_only(e, t) ==
  LET current_node_data == _get_node_data(e, e.current_node)
  IN [current_node |->
        [node_id |-> e.current_node,
         node_type |-> IF current_node_data # None
                       THEN StrV(current_node_data.node_type) ELSE None,
         name |-> IF current_node_data # None
                  THEN StrV(current_node_data.name) ELSE None,
         config |-> IF current_node_data # None
                    THEN current_node_data.config ELSE EmptyDict],
      available_actions |-> IF e.status = "active"
                            THEN _get_available_actions(current_node_data) ELSE <<>>,
      session_data |-> e.session_data,
      status |-> e.status,
      execution_time |-> t - e.start_time]

\* SimulationEngine._get_current_state at clock value t
_get_current_state(e, t) ==
  LET current_node_data == _get_node_data(e, e.current_node)
  IN [current_node |->
        [node_id |-> e.current_node,
         node_type |-> IF current_node_data # None
                       THEN StrV(current_node_data.node_type) ELSE None,
         name |-> IF current_node_data # None
                  THEN StrV(current_node_data.name) ELSE None,
         config |-> IF current_node_data # None
                    THEN current_node_data.config ELSE EmptyDict],
      available_actions |-> _get_available_actions(current_node_data),
      session_data |-> e.session_data,
      status |-> e.status,
      execution_time |-> t - e.start_time]

---------------------------------------------------------------------------
(* SimulationService.  A service is the record of its dict                 *)
(* active_simulations and of the objects its engines hold: an engine       *)
(* object keeps the addresses of its session_data dict and of its          *)
(* execution_history list, and sessions / histories give the object at     *)
(* each address.  A method returns the service it leaves, what it raised   *)
(* ("" when it returned) and its result.                                   *)

\* SimulationService.__init__
SimulationService_init ==
  [active_simulations |-> EmptyDict, sessions |-> <<>>, histories |-> <<>>]

Outcome(S, raised, result) == [S |-> S, raised |-> raised, result |-> result]

\* the addresses of the dicts and lists that a set of engine objects holds
SessionRefs(engines) == {engines[k].session_data : k \in DOMAIN engines}

HistoryRefs(engines) == {engines[k].execution_history : k \in DOMAIN engines}

\* Faulty variant of the object creation: every {} and [] evaluates to one
\* and the same object, as a dict or list that is a class attribute does.
NewAddress_shared(used) == 1

\* the address of a new object ({} or []): one that no live object has
NewAddress(used) ==
  CHOOSE a \in 1..(Cardinality(used) + 1) :
    /\ a \notin used
    /\ \A b \in 1..(Cardinality(used) + 1) : b \notin used => a <= b

\* the engine object: the engine with the addresses of its dict and list
Object(e, session_ref, history_ref) ==
  [e EXCEPT !.session_data = session_ref, !.execution_history = history_ref]

\* the engine with the dict and the list that its addresses name
Load(S, obj) ==
  [obj EXCEPT !.session_data = S.sessions[@],
              !.execution_history = S.histories[@]]

\* the objects that no registered engine holds are released
Collect(S) ==
  [active_simulations |-> S.active_simulations,
   sessions |-> [a \in SessionRefs(S.active_simulations) |-> S.sessions[a]],
   histories |-> [a \in HistoryRefs(S.active_simulations) |-> S.histories[a]]]

\* the engine registered under simulation_id was updated in place to e: the
\* writes went to the dict and the list that the engine object holds
Store(S, simulation_id, e) ==
  LET obj == S.active_simulations[simulation_id]
  IN [active_simulations |->
        [S.active_simulations EXCEPT
           ![simulation_id] = Object(e, obj.session_data, obj.execution_history)],
      sessions |-> [S.sessions EXCEPT ![obj.session_data] = e.session_data],
      histories |-> [S.histories EXCEPT ![obj.execution_history] = e.execution_history]]

\* the engine obj, rebound by engine.start to a new dict and a new list
\* (self.session_data = {}, self.execution_history = []), is registered
\* under simulation_id; the objects it held before are released
Register(S, simulation_id, e) ==
  LET others == [k \in (DOMAIN S.active_simulations) \ {simulation_id} |->
                   S.active_simulations[k]]
      session_ref == NewAddress(SessionRefs(others))
      history_ref == NewAddress(HistoryRefs(others))
  IN Collect(
       [active_simulations |->
          DictSet(S.active_simulations, simulation_id,
                  Object(e, session_ref, history_ref)),
        sessions |-> DictSet(S.sessions, session_ref, e.session_data),
        histories |-> DictSet(S.histories, history_ref, e.execution_history)])

\* self.active_simulations.get(simulation_id)
Lookup(S, simulation_id) == Get(S.active_simulations, simulation_id, None)

\* {"simulation_id": simulation_id, **state}
WithId(simulation_id, state) == [simulation_id |-> simulation_id] @@ state

\* Faulty variant of the start-node resolution: a scenario without a start
\* node starts at its first node.
ResolveStartNode_first_node(sd, start_node_id) ==
  IF ~Truthy(start_node_id)
  THEN IF DefaultStartNode(sd) # None THEN DefaultStartNode(sd)
       ELSE sd.nodes[1].node_id
  ELSE start_node_id

\* the start node of start_simulation / reset_simulation: the given id, or
\* without one (if not start_node_id) the id of the first node of type
\* start; None stands for the ValidationError raised when there is none
ResolveStartNode(sd, start_node_id) ==
  IF ~Truthy(start_node_id) THEN DefaultStartNode(sd) ELSE start_node_id

\* Faulty variant of start_simulation: the engine is registered as
\* constructed, before engine.start.
SimulationService_start_simulation_unstarted(S, scenario, start_node_id, config, simulation_id, engine_id, t) ==
  IF scenario = None
  THEN Outcome(S, "NotFoundError", None)
  ELSE LET resolved == ResolveStartNode(scenario, start_node_id)
       IN IF resolved = None
          THEN Outcome(S, "ValidationError", None)
          ELSE LET engine == Engine(scenario, t) @@
                               [config |-> OrEmptyDict(config), id |-> engine_id]
                   started == start(engine, resolved, t)
               IN Outcome(Register(S, simulation_id, engine), "",
                          WithId(simulation_id, _get_current_state(started, t)))

\* SimulationService.start_simulation.  scenario is what
\* get_scenario_with_details finds (None: it raised NotFoundError),
\* simulation_id the value of str(uuid.uuid4()), engine_id the identity of
\* the new engine object.
SimulationService_start_simulation(S, scenario, start_node_id, config, simulation_id, engine_id, t) ==
  IF scenario = None
  THEN Outcome(S, "NotFoundError", None)
  ELSE LET resolved == ResolveStartNode(scenario, start_node_id)
       IN IF resolved = None
          THEN Outcome(S, "ValidationError", None)
          ELSE LET engine == Engine(scenario, t) @@
                               [config |-> OrEmptyDict(config), id |-> engine_id]
                   started == start(engine, resolved, t)
               IN Outcome(Register(S, simulation_id, started), "",
                          WithId(simulation_id, _get_current_state(started, t)))

\* Faulty variant of get_simulation_status: the query leaves a mark in the
\* session data.
SimulationService_get_simulation_status_touching(S, simulation_id, t) ==
  LET engine == Lookup(S, simulation_id)
  IN IF engine = None
     THEN Outcome(S, "NotFoundError", None)
     ELSE LET e == Load(S, engine)
              seen == IF "status_queries" \in DOMAIN e.session_data
                      THEN e.session_data["status_queries"].n ELSE 0
              e1 == [e EXCEPT !.session_data =
                       DictSet(@, "status_queries", IntV((seen + 1) % 2))]
          IN Outcome(Store(S, simulation_id, e1), "",
                     WithId(simulation_id, _get_current_state(e1, t)))

\* SimulationService.get_simulation_status
SimulationService_get_simulation_status(S, simulation_id, t) ==
  LET engine == Lookup(S, simulation_id)
  IN IF engine = None
     THEN Outcome(S, "NotFoundError", None)
     ELSE Outcome(S, "", WithId(simulation_id, _get_current_state(Load(S, engine), t)))

\* SimulationService.execute_action
SimulationService_execute_action(S, simulation_id, action_type, value, additional_data, t) ==
  LET engine == Lookup(S, simulation_id)
  IN IF engine = None
     THEN Outcome(S, "NotFoundError", None)
     ELSE LET r == Service_execute_action(Load(S, engine), action_type, value,
                                          additional_data, t)
          IN Outcome(Store(S, simulation_id, r.e), r.raised,
                     IF r.raised = ""
                     THEN WithId(simulation_id, _get_current_state(r.e, t))
                     ELSE None)

\* Faulty variant of reset_simulation: the engine is moved to the start
\* node and made active without engine.start, so its session data and its
\* history stay.
SimulationService_reset_simulation_rewind(S, simulation_id, start_node_id, t) ==
  LET engine == Lookup(S, simulation_id)
  IN IF engine = None
     THEN Outcome(S, "NotFoundError", None)
     ELSE LET resolved == ResolveStartNode(engine.scenario_data, start_node_id)
          IN IF resolved = None
             THEN Outcome(S, "ValidationError", None)
             ELSE LET moved == [Load(S, engine) EXCEPT !.current_node = resolved,
                                                       !.status = "active",
                                                       !.start_time = t]
                  IN Outcome(Store(S, simulation_id, moved), "",
                             WithId(simulation_id, _get_current_state(moved, t)))

\* SimulationService.reset_simulation
SimulationService_reset_simulation(S, simulation_id, start_node_id, t) ==
  LET engine == Lookup(S, simulation_id)
  IN IF engine = None
     THEN Outcome(S, "NotFoundError", None)
     ELSE LET resolved == ResolveStartNode(engine.scenario_data, start_node_id)
          IN IF resolved = None
             THEN Outcome(S, "ValidationError", None)
             ELSE LET started == start(Load(S, engine), resolved, t)
                  IN Outcome(Register(S, simulation_id, started), "",
                             WithId(simulation_id, _get_current_state(started, t)))

\* Faulty variant of stop_simulation: the registry is cleared.
SimulationService_stop_simulation_all(S, simulation_id) ==
  IF simulation_id \in DOMAIN S.active_simulations
  THEN Outcome(SimulationService_init, "", None)
  ELSE Outcome(S, "", None)

\* SimulationService.stop_simulation
SimulationService_stop_simulation(S, simulation_id) ==
  IF simulation_id \in DOMAIN S.active_simulations
  THEN Outcome(
         Collect([S EXCEPT !.active_simulations =
                    [k \in (DOMAIN S.active_simulations) \ {simulation_id} |->
                       S.active_simulations[k]]]),
         "", None)
  ELSE Outcome(S, "", None)

\* SimulationService.get_simulation_history
SimulationService_get_simulation_history(S, simulation_id, t) ==
  LET engine == Lookup(S, simulation_id)
  IN IF engine = None
     THEN Outcome(S, "NotFoundError", None)
     ELSE LET e == Load(S, engine)
          IN Outcome(S, "",
               [steps |-> e.execution_history,
                current_step |-> Len(e.execution_history),
                execution_time |-> t - e.start_time,
                errors |-> <<>>])

\* the rows that export_simulation_results writes for the format csv: the
\* header, then one row per step
CsvRows(steps) ==
  << <<"Step", "Timestamp", "Node ID", "Action Type", "Value">> >> \o
  [i \in 1..Len(steps) |->
     <<NatToStr(i),
       NatToStr(steps[i].timestamp),
       str(steps[i].node_id),
       steps[i].action_type,
       IF steps[i].value = None THEN ""
       ELSE str(steps[i].value)>>]

\* SimulationService.export_simulation_results.  content is the data that
\* is serialized (json.dumps, str) or the rows that are written (csv), not
\* the text.
SimulationService_export_simulation_results(S, simulation_id, format, t) ==
  LET engine == Lookup(S, simulation_id)
  IN IF engine = None
     THEN Outcome(S, "NotFoundError", None)
     ELSE LET e == Load(S, engine)
              export_data ==
                [simulation_id |-> simulation_id,
                 status |-> e.status,
                 execution_history |-> e.execution_history,
                 session_data |-> e.session_data,
                 total_execution_time |-> t - e.start_time,
                 exported_at |-> isoformat(t)]
          IN Outcome(S, "",
               [content |-> IF format = "csv"
                            THEN [rows |-> CsvRows(e.execution_history)]
                            ELSE [data |-> export_data],
                metadata |-> [format |-> format,
                              steps_count |-> Len(e.execution_history),
                              duration |-> t - e.start_time],
                generated_at |-> isoformat(t)])

\* SimulationService.get_simulation_by_id: None for an unknown id
SimulationService_get_simulation_by_id(S, simulation_id) ==
  LET engine == Lookup(S, simulation_id)
  IN IF engine = None
     THEN Outcome(S, "", None)
     ELSE Outcome(S, "",
            [simulation_id |-> simulation_id,
             status |-> engine.status,
             scenario_data |-> engine.scenario_data,
             config |-> engine.config,
             start_time |-> engine.start_time])

\* SimulationService.start_playback
SimulationService_start_playback(S, simulation_id, speed, auto_advance, t) ==
  LET engine == Lookup(S, simulation_id)
  IN IF engine = None
     THEN Outcome(S, "NotFoundError", None)
     ELSE LET e == Load(S, engine)
              e1 == [e EXCEPT !.session_data =
                       DictSet(DictSet(DictSet(@, "playback_mode", BoolV(TRUE)),
                                       "playback_speed", speed),
                               "auto_advance", auto_advance)]
          IN Outcome(Store(S, simulation_id, e1), "", _get_current_state(e1, t))

\* the body of pause_simulation and resume_simulation:
\* if engine: engine.session_data["paused"] = paused
set_paused(S, simulation_id, paused) ==
  LET engine == Lookup(S, simulation_id)
  IN IF engine # None
     THEN LET e == Load(S, engine)
          IN Outcome(Store(S, simulation_id,
                           [e EXCEPT !.session_data = DictSet(@, "paused", paused)]),
                     "", None)
     ELSE Outcome(S, "", None)

\* SimulationService.pause_simulation
SimulationService_pause_simulation(S, simulation_id) ==
  set_paused(S, simulation_id, BoolV(TRUE))

\* SimulationService.resume_simulation
SimulationService_resume_simulation(S, simulation_id) ==
  set_paused(S, simulation_id, BoolV(FALSE))

\* the number of steps get_debug_info reports as call_stack
CallStackSize == 10

\* the number of nodes above which validate_simulation recommends to simplify
ManyNodes == 20

\* the last n elements of a list: list[-n:]
LastN(list, n) ==
  IF Len(list) <= n THEN list ELSE SubSeq(list, Len(list) - n + 1, Len(list))

\* SimulationService.get_debug_info.  avg_step_time is given by its
\* numerator and denominator, memory_usage (the length of the text of the
\* session data) is left out.
SimulationService_get_debug_info(S, simulation_id, t) ==
  LET engine == Lookup(S, simulation_id)
  IN IF engine = None
     THEN Outcome(S, "NotFoundError", None)
     ELSE LET e == Load(S, engine)
              steps_count == Len(e.execution_history)
          IN Outcome(S, "",
               [current_state |-> _get_current_state(e, t),
                variables |-> e.session_data,
                call_stack |-> LastN(e.execution_history, CallStackSize),
                performance_metrics |->
                  [execution_time |-> t - e.start_time,
                   steps_count |-> steps_count,
                   avg_step_time |->
                     <<t - e.start_time, IF steps_count > 1 THEN steps_count ELSE 1>>],
                execution_trace |-> e.execution_history])

\* Faulty variant of validate_simulation: several start nodes are an error.
SimulationService_validate_simulation_strict(S, simulation_id) ==
  LET engine == Lookup(S, simulation_id)
  IN IF engine = None
     THEN Outcome(S, "NotFoundError", None)
     ELSE LET e == Load(S, engine)
              nodes == e.scenario_data.nodes
              connections == e.scenario_data.connections
              start_nodes == SelectSeq(nodes, LAMBDA n : n.node_type = START)
              end_nodes == SelectSeq(nodes, LAMBDA n : n.node_type = END)
              node_ids == {nodes[k].node_id : k \in 1..Len(nodes)}
              start_errors ==
                IF Len(start_nodes) = 0 THEN << [kind |-> "no start node", node |-> None] >>
                ELSE IF Len(start_nodes) > 1
                THEN << [kind |-> "several start nodes", node |-> None] >>
                ELSE <<>>
              start_warnings ==
                IF Len(start_nodes) > 1
                THEN << [kind |-> "several start nodes", nodes |-> {}] >> ELSE <<>>
              end_warnings ==
                IF Len(end_nodes) = 0
                THEN << [kind |-> "no end node", nodes |-> {}] >> ELSE <<>>
              ConnectionErrors[k \in 0..Len(connections)] ==
                IF k = 0 THEN <<>>
                ELSE ConnectionErrors[k - 1]
                     \o (IF connections[k].source_node_id \notin node_ids
                         THEN << [kind |-> "unknown source node",
                                  node |-> connections[k].source_node_id] >>
                         ELSE <<>>)
                     \o (IF connections[k].target_node_id \notin node_ids
                         THEN << [kind |-> "unknown target node",
                                  node |-> connections[k].target_node_id] >>
                         ELSE <<>>)
              errors == start_errors \o ConnectionErrors[Len(connections)]
              connected_nodes ==
                {connections[k].source_node_id : k \in 1..Len(connections)}
                \cup {connections[k].target_node_id : k \in 1..Len(connections)}
              isolated_nodes == node_ids \ connected_nodes
              isolated_warnings ==
                IF isolated_nodes # {}
                THEN << [kind |-> "isolated nodes", nodes |-> isolated_nodes] >>
                ELSE <<>>
              recommendations ==
                IF Len(nodes) > ManyNodes THEN << "simplify the scenario" >> ELSE <<>>
              executed_nodes ==
                {e.execution_history[k].node_id : k \in 1..Len(e.execution_history)}
              coverage ==
                IF Len(nodes) > 0
                THEN <<Cardinality(executed_nodes) * 100, Len(nodes)>>
                ELSE <<0, 1>>
          IN Outcome(S, "",
               [is_valid |-> Len(errors) = 0,
                errors |-> errors,
                warnings |-> start_warnings \o end_warnings \o isolated_warnings,
                recommendations |-> recommendations,
                coverage |-> coverage])

\* Faulty variant of validate_simulation: the coverage counts the steps of
\* the history, not the distinct nodes in it.
SimulationService_validate_simulation_steps(S, simulation_id) ==
  LET engine == Lookup(S, simulation_id)
  IN IF engine = None
     THEN Outcome(S, "NotFoundError", None)
     ELSE LET e == Load(S, engine)
              nodes == e.scenario_data.nodes
              connections == e.scenario_data.connections
              start_nodes == SelectSeq(nodes, LAMBDA n : n.node_type = START)
              end_nodes == SelectSeq(nodes, LAMBDA n : n.node_type = END)
              node_ids == {nodes[k].node_id : k \in 1..Len(nodes)}
              start_errors ==
                IF Len(start_nodes) = 0 THEN << [kind |-> "no start node", node |-> None] >>
                ELSE <<>>
              start_warnings ==
                IF Len(start_nodes) > 1
                THEN << [kind |-> "several start nodes", nodes |-> {}] >> ELSE <<>>
              end_warnings ==
                IF Len(end_nodes) = 0
                THEN << [kind |-> "no end node", nodes |-> {}] >> ELSE <<>>
              ConnectionErrors[k \in 0..Len(connections)] ==
                IF k = 0 THEN <<>>
                ELSE ConnectionErrors[k - 1]
                     \o (IF connections[k].source_node_id \notin node_ids
                         THEN << [kind |-> "unknown source node",
                                  node |-> connections[k].source_node_id] >>
                         ELSE <<>>)
                     \o (IF connections[k].target_node_id \notin node_ids
                         THEN << [kind |-> "unknown target node",
                                  node |-> connections[k].target_node_id] >>
                         ELSE <<>>)
              errors == start_errors \o ConnectionErrors[Len(connections)]
              connected_nodes ==
                {connections[k].source_node_id : k \in 1..Len(connections)}
                \cup {connections[k].target_node_id : k \in 1..Len(connections)}
              isolated_nodes == node_ids \ connected_nodes
              isolated_warnings ==
                IF isolated_nodes # {}
                THEN << [kind |-> "isolated nodes", nodes |-> isolated_nodes] >>
                ELSE <<>>
              recommendations ==
                IF Len(nodes) > ManyNodes THEN << "simplify the scenario" >> ELSE <<>>
              executed_nodes ==
                {e.execution_history[k].node_id : k \in 1..Len(e.execution_history)}
              coverage ==
                IF Len(nodes) > 0
                THEN <<Len(e.execution_history) * 100, Len(nodes)>>
                ELSE <<0, 1>>
          IN Outcome(S, "",
               [is_valid |-> Len(errors) = 0,
                errors |-> errors,
                warnings |-> start_warnings \o end_warnings \o isolated_warnings,
                recommendations |-> recommendations,
                coverage |-> coverage])

\* SimulationService.validate_simulation.  The messages are given by their
\* kind and the node they name; coverage, a percentage, by the number of
\* distinct nodes of the history times 100 and the number of nodes.
SimulationService_validate_simulation(S, simulation_id) ==
  LET engine == Lookup(S, simulation_id)
  IN IF engine = None
     THEN Outcome(S, "NotFoundError", None)
     ELSE LET e == Load(S, engine)
              nodes == e.scenario_data.nodes
              connections == e.scenario_data.connections
              start_nodes == SelectSeq(nodes, LAMBDA n : n.node_type = START)
              end_nodes == SelectSeq(nodes, LAMBDA n : n.node_type = END)
              node_ids == {nodes[k].node_id : k \in 1..Len(nodes)}
              start_errors ==
                IF Len(start_nodes) = 0 THEN << [kind |-> "no start node", node |-> None] >>
                ELSE <<>>
              start_warnings ==
                IF Len(start_nodes) > 1
                THEN << [kind |-> "several start nodes", nodes |-> {}] >> ELSE <<>>
              end_warnings ==
                IF Len(end_nodes) = 0
                THEN << [kind |-> "no end node", nodes |-> {}] >> ELSE <<>>
              ConnectionErrors[k \in 0..Len(connections)] ==
                IF k = 0 THEN <<>>
                ELSE ConnectionErrors[k - 1]
                     \o (IF connections[k].source_node_id \notin node_ids
                         THEN << [kind |-> "unknown source node",
                                  node |-> connections[k].source_node_id] >>
                         ELSE <<>>)
                     \o (IF connections[k].target_node_id \notin node_ids
                         THEN << [kind |-> "unknown target node",
                                  node |-> connections[k].target_node_id] >>
                         ELSE <<>>)
              errors == start_errors \o ConnectionErrors[Len(connections)]
              connected_nodes ==
                {connections[k].source_node_id : k \in 1..Len(connections)}
                \cup {connections[k].target_node_id : k \in 1..Len(connections)}
              isolated_nodes == node_ids \ connected_nodes
              isolated_warnings ==
                IF isolated_nodes # {}
                THEN << [kind |-> "isolated nodes", nodes |-> isolated_nodes] >>
                ELSE <<>>
              recommendations ==
                IF Len(nodes) > ManyNodes THEN << "simplify the scenario" >> ELSE <<>>
              executed_nodes ==
                {e.execution_history[k].node_id : k \in 1..Len(e.execution_history)}
              coverage ==
                IF Len(nodes) > 0
                THEN <<Cardinality(executed_nodes) * 100, Len(nodes)>>
                ELSE <<0, 1>>
          IN Outcome(S, "",
               [is_valid |-> Len(errors) = 0,
                errors |-> errors,
                warnings |-> start_warnings \o end_warnings \o isolated_warnings,
                recommendations |-> recommendations,
                coverage |-> coverage])

---------------------------------------------------------------------------
(* RegistrySpec and LookupSpec: one SimulationService object and the calls *)
(* of its methods.  scenario_data is the scenario that                     *)
(* get_scenario_with_details finds under KnownScenario; the variables of   *)
(* the single engine of Spec stay as Init leaves them.  In RegistrySpec    *)
(* callers start several simulations and run, reset, pause, play back,     *)
(* query and stop them; in LookupSpec callers start one simulation and     *)
(* call every method, with its id and with an id that was never returned.  *)

MaxSimulations == 2

MaxStarts == 1

\* the scenario ids of the calls of start_simulation: the id of the stored
\* scenario and an id that names none
KnownScenario == "known"

StartRequest(scenario_id, start_node_id) ==
  [scenario_id |-> scenario_id, start_node_id |-> start_node_id]

\* the start requests: the stored scenario without a start node id, at the
\* transfer node and at an id that names no node, and a missing scenario
StartRequests ==
  {StartRequest(KnownScenario, None),
   StartRequest(KnownScenario, StrV("t")),
   StartRequest(KnownScenario, StrV("zz")),
   StartRequest("missing", None)}

\* the start node ids of reset_simulation: none, the transfer node and an
\* id that names no node; in LookupSpec the end node too
ResetNodeIds == {None, StrV("t"), StrV("zz")}

LookupResetNodeIds == ResetNodeIds \cup {StrV("e")}

\* the requests of execute_action
RegistryRequests == {Request("transfer", None, None)}

\* the formats of export_simulation_results
ExportFormats == {"json", "csv"}

\* str(uuid.uuid4()): an id that was never generated before
NewSimulationId == "sim-" \o NatToStr(Cardinality(DOMAIN issued) + 1)

\* the ids that callers address: the ids start_simulation returned, and
\* with them an id that it never returned
IssuedIds == DOMAIN issued

SimulationIds == IssuedIds \cup {"no-such-id"}

\* the service object
Service ==
  [active_simulations |-> active_simulations,
   sessions |-> sessions,
   histories |-> histories]

SetService(S) ==
  /\ active_simulations' = S.active_simulations
  /\ sessions' = S.sessions
  /\ histories' = S.histories

\* get_scenario_with_details
get_scenario_with_details(scenario_id) ==
  IF scenario_id = KnownScenario THEN scenario_data ELSE None

\* "last" in RegistrySpec and HttpSpec: the method, the caller ("service":
\* a call on the service object, "http": an endpoint handler), the
\* arguments, what the call raised, its result and the service it started
\* from
ServiceCall(op, via, simulation_id, start_node_id, action_type, value, o, pre) ==
  [op |-> op, via |-> via, simulation_id |-> simulation_id,
   start_node_id |-> start_node_id, action_type |-> action_type,
   value |-> value, raised |-> o.raised, result |-> o.result, pre |-> pre]

\* a call on the service object that leaves outcome o
Called(op, simulation_id, start_node_id, action_type, value, o) ==
  /\ SetService(o.S)
  /\ last' = ServiceCall(op, "service", simulation_id, start_node_id,
                         action_type, value, o, Service)
  /\ UNCHANGED <<scenario_data, now, engine_vars, concurrent_vars>>

RegistryInit ==
  /\ scenario_data \in Scenarios
  /\ now = 0
  /\ NoEngine
  /\ NoRegistry
  /\ NoCalls
  /\ last = ServiceCall("__init__", "service", "", None, "", None,
                        Outcome(SimulationService_init, "", None),
                        SimulationService_init)

RegistryStart(limit, scenario_id, start_node_id) ==
  /\ Cardinality(DOMAIN issued) < limit
  /\ LET o == SimulationService_start_simulation(
                Service, get_scenario_with_details(scenario_id), start_node_id,
                None, NewSimulationId,
                NewAddress({active_simulations[k].id : k \in DOMAIN active_simulations}),
                now)
     IN /\ Called("start_simulation", NewSimulationId, start_node_id, "", None, o)
        /\ issued' = IF o.raised = ""
                     THEN DictSet(issued, NewSimulationId, "started") ELSE issued

RegistryStatus(simulation_id) ==
  /\ Called("get_simulation_status", simulation_id, None, "", None,
            SimulationService_get_simulation_status(Service, simulation_id, now))
  /\ UNCHANGED issued

RegistryExecute(simulation_id, action_type, value, additional_data) ==
  LET o == SimulationService_execute_action(Service, simulation_id, action_type,
                                            value, additional_data, now)
  IN /\ \A a \in DOMAIN o.S.histories : Len(o.S.histories[a]) <= MaxHistory
     /\ Called("execute_action", simulation_id, None, action_type, value, o)
     /\ UNCHANGED issued

RegistryReset(simulation_id, start_node_id) ==
  /\ Called("reset_simulation", simulation_id, start_node_id, "", None,
            SimulationService_reset_simulation(Service, simulation_id,
                                               start_node_id, now))
  /\ UNCHANGED issued

RegistryStop(simulation_id) ==
  /\ Called("stop_simulation", simulation_id, None, "", None,
            SimulationService_stop_simulation(Service, simulation_id))
  /\ issued' = IF simulation_id \in DOMAIN issued
               THEN [issued EXCEPT ![simulation_id] = "stopped"] ELSE issued

RegistryHistory(simulation_id) ==
  /\ Called("get_simulation_history", simulation_id, None, "", None,
            SimulationService_get_simulation_history(Service, simulation_id, now))
  /\ UNCHANGED issued

RegistryExport(simulation_id, format) ==
  /\ Called("export_simulation_results", simulation_id, None, format, None,
            SimulationService_export_simulation_results(Service, simulation_id,
                                                        format, now))
  /\ UNCHANGED issued

RegistryGetById(simulation_id) ==
  /\ Called("get_simulation_by_id", simulation_id, None, "", None,
            SimulationService_get_simulation_by_id(Service, simulation_id))
  /\ UNCHANGED issued

RegistryPlayback(simulation_id, speed, auto_advance) ==
  /\ Called("start_playback", simulation_id, None, "", speed,
            SimulationService_start_playback(Service, simulation_id, speed,
                                             auto_advance, now))
  /\ UNCHANGED issued

RegistryPause(simulation_id) ==
  /\ Called("pause_simulation", simulation_id, None, "", None,
            SimulationService_pause_simulation(Service, simulation_id))
  /\ UNCHANGED issued

RegistryResume(simulation_id) ==
  /\ Called("resume_simulation", simulation_id, None, "", None,
            SimulationService_resume_simulation(Service, simulation_id))
  /\ UNCHANGED issued

RegistryDebug(simulation_id) ==
  /\ Called("get_debug_info", simulation_id, None, "", None,
            SimulationService_get_debug_info(Service, simulation_id, now))
  /\ UNCHANGED issued

RegistryValidate(simulation_id) ==
  /\ Called("validate_simulation", simulation_id, None, "", None,
            SimulationService_validate_simulation(Service, simulation_id))
  /\ UNCHANGED issued

RegistryNext ==
  \/ \E req \in StartRequests \ {StartRequest("missing", None)} :
       RegistryStart(MaxSimulations, req.scenario_id, req.start_node_id)
  \/ \E simulation_id \in IssuedIds : RegistryStatus(simulation_id)
  \/ \E simulation_id \in IssuedIds, req \in RegistryRequests :
       RegistryExecute(simulation_id, req.action_type, req.value, req.additional_data)
  \/ \E simulation_id \in IssuedIds, start_node_id \in ResetNodeIds :
       RegistryReset(simulation_id, start_node_id)
  \/ \E simulation_id \in IssuedIds : RegistryStop(simulation_id)
  \/ \E simulation_id \in IssuedIds : RegistryHistory(simulation_id)
  \/ \E simulation_id \in IssuedIds :
       RegistryPlayback(simulation_id, FloatV("2.0"), BoolV(FALSE))
  \/ \E simulation_id \in IssuedIds : RegistryPause(simulation_id)
  \/ \E simulation_id \in IssuedIds : RegistryResume(simulation_id)

RegistrySpec == RegistryInit /\ [][RegistryNext]_vars

LookupNext ==
  \/ \E req \in StartRequests :
       RegistryStart(MaxStarts, req.scenario_id, req.start_node_id)
  \/ \E simulation_id \in SimulationIds : RegistryStatus(simulation_id)
  \/ \E simulation_id \in SimulationIds, req \in RegistryRequests :
       RegistryExecute(simulation_id, req.action_type, req.value, req.additional_data)
  \/ \E simulation_id \in SimulationIds, start_node_id \in LookupResetNodeIds :
       RegistryReset(simulation_id, start_node_id)
  \/ \E simulation_id \in SimulationIds : RegistryStop(simulation_id)
  \/ \E simulation_id \in SimulationIds : RegistryHistory(simulation_id)
  \/ \E simulation_id \in SimulationIds, format \in ExportFormats :
       RegistryExport(simulation_id, format)
  \/ \E simulation_id \in SimulationIds : RegistryGetById(simulation_id)
  \/ \E simulation_id \in SimulationIds :
       RegistryPlayback(simulation_id, FloatV("2.0"), BoolV(FALSE))
  \/ \E simulation_id \in SimulationIds : RegistryPause(simulation_id)
  \/ \E simulation_id \in SimulationIds : RegistryResume(simulation_id)
  \/ \E simulation_id \in SimulationIds : RegistryDebug(simulation_id)
  \/ \E simulation_id \in SimulationIds : RegistryValidate(simulation_id)

LookupSpec == RegistryInit /\ [][LookupNext]_vars

---------------------------------------------------------------------------
(* Properties of the service.  "last" names the call that led to the       *)
(* state, last.pre the service the call started from.                      *)

\* the engine registered under simulation_id, with its dict and list, in
\* service S
EngineIn(S, simulation_id) == Load(S, S.active_simulations[simulation_id])

\* what the claims observe of an engine
View(e) ==
  [current_node |-> e.current_node,
   status |-> e.status,
   session_data |-> e.session_data,
   execution_history |-> e.execution_history]

StartOrReset == last.op \in {"start_simulation", "reset_simulation"}

\* the call found its scenario (start_simulation) or its engine
\* (reset_simulation)
Found == last.raised # "NotFoundError"

\* the indexes of the nodes of type start
StartNodes == {k \in 1..Len(scenario_data.nodes) : scenario_data.nodes[k].node_type = START}

C12_UnknownStartNodeRejected ==
  (/\ StartOrReset
   /\ Found
   /\ Truthy(last.start_node_id)
   /\ last.start_node_id \notin NodeIds(scenario_data))
  => /\ last.raised # ""
     /\ Service = last.pre

\* the scenario has a connection whose source or target names no node
HasDanglingConnection ==
  \E k \in 1..Len(scenario_data.connections) :
    \/ scenario_data.connections[k].source_node_id \notin NodeIds(scenario_data)
    \/ scenario_data.connections[k].target_node_id \notin NodeIds(scenario_data)

\* C13: Start on a scenario without a node of type start, or with a
\* connection whose source or target names no node, fails with
\* ValidationError and registers no engine.  Stated for the calls that name
\* a start node of the scenario: the claim covers them, and the calls
\* without a start node id are those of C11.
C13_InvalidGraphRejected ==
  (/\ last.op = "start_simulation"
   /\ Found
   /\ last.start_node_id \in NodeIds(scenario_data)
   /\ (StartNodes = {} \/ HasDanglingConnection))
  => /\ last.raised = "ValidationError"
     /\ active_simulations = last.pre.active_simulations

\* C14: a Reset that succeeds leaves the engine in the state of a fresh
\* Start at the same start node: at that node, active, with empty
\* session_data (no paused and no playback flags), empty execution_history
\* and start_time now; the simulation_id resolves to the same engine
\* object with the same scenario and config, and the registry holds the
\* same ids.  A Reset fails exactly when that Start would fail (no start
\* node id and no node of type start), and then changes nothing.
C14_ResetIsFreshStart ==
  (last.op = "reset_simulation" /\ Found) =>
    LET before == last.pre.active_simulations[last.simulation_id]
        resolved == IF Truthy(last.start_node_id) THEN last.start_node_id
                    ELSE IF StartNodes # {}
                         THEN scenario_data.nodes[Least(StartNodes)].node_id
                         ELSE None
    IN IF resolved = None
       THEN last.raised = "ValidationError" /\ Service = last.pre
       ELSE /\ last.raised = ""
            /\ DOMAIN active_simulations = DOMAIN last.pre.active_simulations
            /\ LET after == EngineIn(Service, last.simulation_id)
               IN /\ after.current_node = resolved
                  /\ after.status = "active"
                  /\ after.session_data = EmptyDict
                  /\ after.execution_history = <<>>
                  /\ after.start_time = now
                  /\ after.id = before.id
                  /\ after.scenario_data = before.scenario_data
                  /\ after.config = before.config
            /\ last.result.session_data = EmptyDict
            /\ last.result.status = "active"
            /\ last.result.current_node.node_id = resolved

\* a paused, completed simulation with a history was reset
C14_Witness ==
  /\ last.op = "reset_simulation"
  /\ last.raised = ""
  /\ EngineIn(last.pre, last.simulation_id).status = "completed"
  /\ "paused" \in DOMAIN EngineIn(last.pre, last.simulation_id).session_data
  /\ Len(EngineIn(last.pre, last.simulation_id).execution_history) > 0
  /\ EngineIn(Service, last.simulation_id).session_data = EmptyDict
  /\ EngineIn(Service, last.simulation_id).status = "active"

\* the read-only queries
Queries ==
  {"get_simulation_status", "get_simulation_history", "get_debug_info",
   "validate_simulation", "export_simulation_results"}

\* what GetState reports of the state: the node, the session data and the
\* status (not execution_time)
Reported(result) ==
  [current_node |-> result.current_node,
   session_data |-> result.session_data,
   status |-> result.status]

\* C15: a read-only query (status, history, debug info, validate, export)
\* leaves the registry and every engine as they were, and reports the
\* state as it is; two status queries of one simulation, one directly
\* after the other, return the same current_node, session_data and status.
C15_QueriesReadOnly ==
  /\ [](last.op \in Queries =>
          /\ Service = last.pre
          /\ (last.op = "get_simulation_status" /\ last.raised = "") =>
               /\ last.result.current_node.node_id
                    = EngineIn(Service, last.simulation_id).current_node
               /\ last.result.session_data
                    = EngineIn(Service, last.simulation_id).session_data
               /\ last.result.status = EngineIn(Service, last.simulation_id).status)
  /\ [][(/\ last.op = "get_simulation_status"
         /\ last'.op = "get_simulation_status"
         /\ last'.simulation_id = last.simulation_id
         /\ last.raised = "")
        => /\ last'.raised = ""
           /\ Reported(last'.result) = Reported(last.result)]_vars

\* a status query of a paused, transferred simulation
C15_Witness ==
  /\ last.op = "get_simulation_status"
  /\ last.raised = ""
  /\ last.result.status = "transferred"
  /\ "paused" \in DOMAIN last.result.session_data
  /\ "transfer_target" \in DOMAIN last.result.session_data
  /\ Service = last.pre

---------------------------------------------------------------------------
(* HttpSpec: the endpoint handlers of api/v1/endpoints/simulations.py.     *)
(* Each handler constructs its own SimulationService and calls it; the     *)
(* service object is dropped when the handler returns, so no registry      *)
(* outlives a request and the registry variables stay empty.  "issued"     *)
(* keeps the ids that the start handler has returned to its callers.       *)

\* the playback speeds of the requests: the default, and one out of range
PlaybackSpeeds == {FloatV("1.0"), FloatV("0.0")}

\* speed <= 0 or speed > 10, for the speeds of the requests
SpeedOutOfRange(speed) == speed = FloatV("0.0")

\* the formats of the export requests: two that the handler accepts and one
\* that it refuses
HttpExportFormats == {"json", "csv", "pdf"}

\* a handler that called a service it constructed itself and got outcome o:
\* the service is dropped
Handled(op, simulation_id, start_node_id, action_type, value, o) ==
  /\ last' = ServiceCall(op, "http", simulation_id, start_node_id,
                         action_type, value, o, SimulationService_init)
  /\ UNCHANGED <<scenario_data, now, engine_vars, concurrent_vars,
                 active_simulations, sessions, histories>>

\* POST /scenarios/{scenario_id}/simulate
HttpStart(scenario_id, start_node_id) ==
  /\ Cardinality(DOMAIN issued) < MaxSimulations
  /\ LET simulation_service == SimulationService_init
         o == SimulationService_start_simulation(
                simulation_service, get_scenario_with_details(scenario_id),
                start_node_id, None, NewSimulationId, NewAddress({}), now)
     IN /\ Handled("start_simulation", NewSimulationId, start_node_id, "", None, o)
        /\ issued' = IF o.raised = ""
                     THEN DictSet(issued, NewSimulationId, "started") ELSE issued

\* GET /{simulation_id}/status
HttpStatus(simulation_id) ==
  /\ LET simulation_service == SimulationService_init
     IN Handled("get_simulation_status", simulation_id, None, "", None,
                SimulationService_get_simulation_status(simulation_service,
                                                        simulation_id, now))
  /\ UNCHANGED issued

\* POST /{simulation_id}/action: 404 without a simulation, 400 when it is
\* not active, else execute_action
HttpAction(simulation_id, action_type, value, additional_data) ==
  /\ LET simulation_service == SimulationService_init
         simulation == SimulationService_get_simulation_by_id(
                         simulation_service, simulation_id).result
     IN IF simulation = None
        THEN Handled("execute_action", simulation_id, None, action_type, value,
                     Outcome(simulation_service, "HTTPException", IntV(404)))
        ELSE IF simulation.status # "active"
        THEN Handled("execute_action", simulation_id, None, action_type, value,
                     Outcome(simulation_service, "HTTPException", IntV(400)))
        ELSE Handled("execute_action", simulation_id, None, action_type, value,
                     SimulationService_execute_action(
                       simulation_service, simulation_id, action_type, value,
                       additional_data, now))
  /\ UNCHANGED issued

\* POST /{simulation_id}/reset
HttpReset(simulation_id, start_node_id) ==
  /\ LET simulation_service == SimulationService_init
     IN Handled("reset_simulation", simulation_id, start_node_id, "", None,
                SimulationService_reset_simulation(simulation_service,
                                                   simulation_id, start_node_id, now))
  /\ UNCHANGED issued

\* DELETE /{simulation_id}
HttpStop(simulation_id) ==
  /\ LET simulation_service == SimulationService_init
     IN Handled("stop_simulation", simulation_id, None, "", None,
                SimulationService_stop_simulation(simulation_service, simulation_id))
  /\ issued' = IF simulation_id \in DOMAIN issued
               THEN [issued EXCEPT ![simulation_id] = "stopped"] ELSE issued

\* GET /{simulation_id}/history
HttpHistory(simulation_id) ==
  /\ LET simulation_service == SimulationService_init
     IN Handled("get_simulation_history", simulation_id, None, "", None,
                SimulationService_get_simulation_history(simulation_service,
                                                         simulation_id, now))
  /\ UNCHANGED issued

\* GET /{simulation_id}/export: 400 for a format other than json, csv, xlsx
HttpExport(simulation_id, format) ==
  /\ LET simulation_service == SimulationService_init
     IN IF format \notin {"json", "csv", "xlsx"}
        THEN Handled("export_simulation_results", simulation_id, None, format, None,
                     Outcome(simulation_service, "HTTPException", IntV(400)))
        ELSE Handled("export_simulation_results", simulation_id, None, format, None,
                     SimulationService_export_simulation_results(
                       simulation_service, simulation_id, format, now))
  /\ UNCHANGED issued

\* POST /{simulation_id}/playback: 400 for a speed out of range
HttpPlayback(simulation_id, speed, auto_advance) ==
  /\ IF SpeedOutOfRange(speed)
     THEN Handled("start_playback", simulation_id, None, "", speed,
                  Outcome(SimulationService_init, "HTTPException", IntV(400)))
     ELSE LET simulation_service == SimulationService_init
          IN Handled("start_playback", simulation_id, None, "", speed,
                     SimulationService_start_playback(
                       simulation_service, simulation_id, speed, auto_advance, now))
  /\ UNCHANGED issued

\* POST /{simulation_id}/pause
HttpPause(simulation_id) ==
  /\ LET simulation_service == SimulationService_init
     IN Handled("pause_simulation", simulation_id, None, "", None,
                SimulationService_pause_simulation(simulation_service, simulation_id))
  /\ UNCHANGED issued

\* POST /{simulation_id}/resume
HttpResume(simulation_id) ==
  /\ LET simulation_service == SimulationService_init
     IN Handled("resume_simulation", simulation_id, None, "", None,
                SimulationService_resume_simulation(simulation_service, simulation_id))
  /\ UNCHANGED issued

\* GET /{simulation_id}/debug
HttpDebug(simulation_id) ==
  /\ LET simulation_service == SimulationService_init
     IN Handled("get_debug_info", simulation_id, None, "", None,
                SimulationService_get_debug_info(simulation_service,
                                                 simulation_id, now))
  /\ UNCHANGED issued

\* POST /{simulation_id}/validate
HttpValidate(simulation_id) ==
  /\ LET simulation_service == SimulationService_init
     IN Handled("validate_simulation", simulation_id, None, "", None,
                SimulationService_validate_simulation(simulation_service,
                                                      simulation_id))
  /\ UNCHANGED issued

HttpInit ==
  /\ scenario_data \in Scenarios
  /\ now = 0
  /\ NoEngine
  /\ NoRegistry
  /\ NoCalls
  /\ last = ServiceCall("__init__", "http", "", None, "", None,
                        Outcome(SimulationService_init, "", None),
                        SimulationService_init)

HttpNext ==
  \/ \E req \in StartRequests : HttpStart(req.scenario_id, req.start_node_id)
  \/ \E simulation_id \in SimulationIds : HttpStatus(simulation_id)
  \/ \E simulation_id \in SimulationIds, req \in RegistryRequests :
       HttpAction(simulation_id, req.action_type, req.value, req.additional_data)
  \/ \E simulation_id \in SimulationIds, start_node_id \in ResetNodeIds :
       HttpReset(simulation_id, start_node_id)
  \/ \E simulation_id \in SimulationIds : HttpStop(simulation_id)
  \/ \E simulation_id \in SimulationIds : HttpHistory(simulation_id)
  \/ \E simulation_id \in SimulationIds, format \in HttpExportFormats :
       HttpExport(simulation_id, format)
  \/ \E simulation_id \in SimulationIds, speed \in PlaybackSpeeds :
       HttpPlayback(simulation_id, speed, BoolV(TRUE))
  \/ \E simulation_id \in SimulationIds : HttpPause(simulation_id)
  \/ \E simulation_id \in SimulationIds : HttpResume(simulation_id)
  \/ \E simulation_id \in SimulationIds : HttpDebug(simulation_id)
  \/ \E simulation_id \in SimulationIds : HttpValidate(simulation_id)

HttpSpec == HttpInit /\ [][HttpNext]_vars

\* the id was returned by a Start and no Stop of it was issued since
StartedNotStopped(simulation_id) ==
  /\ simulation_id \in DOMAIN issued
  /\ issued[simulation_id] = "started"

\* the call found no simulation under its id
NotFound ==
  \/ last.raised = "NotFoundError"
  \/ last.raised = "HTTPException" /\ last.result = IntV(404)

\* C16: a status query, ExecuteAction, Reset or history request for an id
\* that Start returned, issued before any Stop of that id, finds the engine:
\* it does not fail with NotFoundError (or its 404).
C16_StartedSimulationIsFound ==
  (/\ last.op \in {"get_simulation_status", "execute_action",
                   "reset_simulation", "get_simulation_history"}
   /\ StartedNotStopped(last.simulation_id))
  => ~NotFound

\* the methods that look the engine up and raise NotFoundError without one
\* (those of them that RegistrySpec calls)
LookupCalls ==
  {"get_simulation_status", "execute_action", "reset_simulation",
   "get_simulation_history", "start_playback"}

\* the engines of service S other than the one registered under simulation_id
Others(S, simulation_id) ==
  [k \in (DOMAIN S.active_simulations) \ {simulation_id} |->
     View(EngineIn(S, k))]

IdCalls ==
  {"get_simulation_status", "execute_action", "reset_simulation",
   "get_simulation_history", "export_simulation_results",
   "get_simulation_by_id", "start_playback", "pause_simulation",
   "resume_simulation", "get_debug_info", "validate_simulation"}

\* C18: every method addressed to a simulation_id that is not in the
\* registry fails with NotFoundError and changes no registry or engine
\* state.
C18_UnknownIdRaisesNotFound ==
  (/\ last.op \in IdCalls
   /\ last.simulation_id \notin DOMAIN last.pre.active_simulations)
  => /\ last.raised = "NotFoundError"
     /\ Service = last.pre

\* the operations of C19 that are addressed to one simulation
AddressedCalls ==
  {"execute_action", "reset_simulation", "pause_simulation",
   "resume_simulation", "start_playback", "stop_simulation"}

\* C19: an operation addressed to simulation A (ExecuteAction, Reset,
\* pause, resume, playback, Stop) changes the current_node_id, status,
\* session_data and execution_history of no other registered simulation,
\* and no other simulation leaves the registry.
C19_SimulationsIsolated ==
  last.op \in AddressedCalls =>
    Others(Service, last.simulation_id) = Others(last.pre, last.simulation_id)

\* two simulations of the same scenario stand at the same node with equal
\* session data; a transfer on the one has changed it and not the other
C19_Witness ==
  /\ last.op = "execute_action"
  /\ last.simulation_id = "sim-1"
  /\ last.raised = ""
  /\ "sim-2" \in DOMAIN active_simulations
  /\ View(EngineIn(last.pre, "sim-1")) = View(EngineIn(last.pre, "sim-2"))
  /\ EngineIn(Service, "sim-1").status = "transferred"
  /\ EngineIn(Service, "sim-2").status = "active"
  /\ View(EngineIn(Service, "sim-2")) = View(EngineIn(last.pre, "sim-2"))

---------------------------------------------------------------------------
(* ConcurrentSpec: execute_action coroutines in flight on one engine.      *)
(* The service methods are coroutines (async def) that the event loop      *)
(* runs one at a time; a coroutine gives way to another only where it      *)
(* awaits.  A request that arrives creates a call (Issue); the event loop  *)
(* then runs a call that is in flight up to its next await or to its end   *)
(* (Run).  The engine is that of Spec, started at a node of the scenario.  *)

\* Faulty variant of execute_action_parts: the coroutine awaits between the
\* lookup of the current node and the dispatch.
execute_action_parts_awaiting == <<"read", "write">>

\* the parts into which its awaits cut the body of
\* SimulationService.execute_action, which calls engine.execute_action:
\* neither contains an await, so the body is one part
execute_action_parts == <<"all">>

\* the requests of the concurrent calls
ConcurrentRequests ==
  {Request("continue", None, None),
   Request("select", StrV("2"), None),
   Request("input", StrV("010-1234-5678"), None),
   Request("transfer", None, None),
   Request("end", None, None)}

\* lines 54-78 of SimulationEngine.execute_action: the step is recorded and
\* the node data that was looked up is dispatched on
dispatch(e, current_node_data, action_type, value, additional_data, t) ==
  LET execution_step ==
        [timestamp |-> t,
         node_id |-> e.current_node,
         action_type |-> action_type,
         value |-> value,
         additional_data |-> OrEmptyDict(additional_data)]
      e1 == record_step(e, execution_step)
      node_type == current_node_data.node_type
  IN CASE node_type = MESSAGE ->
            _handle_message_node(e1, current_node_data, action_type, value)
       [] node_type = BRANCH ->
            _handle_branch_node(e1, current_node_data, action_type, value)
       [] node_type = INPUT ->
            _handle_input_node(e1, current_node_data, action_type, value)
       [] node_type = TRANSFER ->
            _handle_transfer_node(e1, current_node_data, action_type, value, t)
       [] node_type = END ->
            _handle_end_node(e1, current_node_data, action_type, value, t)
       [] OTHER ->
            Raised(e1, "SimulationError", "unsupported node type")

\* a call is in flight until it has run all its parts
InFlight == {c \in 1..Len(calls) : calls[c].pc < Len(execute_action_parts)}

Done == {c \in 1..Len(calls) : calls[c].pc = Len(execute_action_parts)}

ConcurrentInit ==
  /\ scenario_data \in Scenarios
  /\ now = 0
  /\ current_node \in NodeIds(scenario_data)
  /\ status = "active"
  /\ session_data = EmptyDict
  /\ execution_history = <<>>
  /\ start_time = 0
  /\ last = Call("start_simulation", current_node, "", None, Returned(Self), Brief(Self))
  /\ NoRegistry
  /\ NoCalls

\* a request arrives: its coroutine is created.  overlaps tells whether
\* another call was in flight then.  When none is, the calls that follow
\* are compared with the engine as it is now.
Issue(action_type, value, additional_data) ==
  /\ Len(execution_history) + Cardinality(InFlight) < MaxHistory
  /\ LET call == [request |-> Request(action_type, value, additional_data),
                  pc |-> 0,
                  node_data |-> None,
                  raised |-> "",
                  overlaps |-> InFlight # {},
                  ran |-> 0]
     IN IF InFlight = {}
        THEN /\ calls' = <<call>>
             /\ batch' = <<Self>>
        ELSE /\ calls' = Append(calls, call)
             /\ UNCHANGED batch
  /\ UNCHANGED <<scenario_data, now, last, engine_vars, registry_vars>>

\* the call c, having run a part that left outcome r, is at its end (it
\* returned or raised) or at its next await
Ran(c, r, finished, node_data) ==
  /\ SetEngine(r.e)
  /\ calls' = [calls EXCEPT
                 ![c].pc = IF finished THEN Len(execute_action_parts) ELSE @ + 1,
                 ![c].raised = r.raised,
                 ![c].node_data = node_data,
                 ![c].ran = IF finished THEN Cardinality(Done) + 1 ELSE @]
  /\ UNCHANGED <<now, last, batch, registry_vars>>

\* the event loop runs the next part of call c
Run(c) ==
  /\ c \in InFlight
  /\ LET call == calls[c]
         req == call.request
         part == execute_action_parts[call.pc + 1]
     IN CASE part = "all" ->
               Ran(c, Service_execute_action(Self, req.action_type, req.value,
                                             req.additional_data, now),
                   TRUE, None)
          [] part = "read" ->
               IF not_active(Self)
               THEN Ran(c, Raised(Self, "SimulationError", "not active"), TRUE, None)
               ELSE IF _get_node_data(Self, current_node) = None
               THEN Ran(c, Raised(Self, "SimulationError", "node not found"), TRUE, None)
               ELSE Ran(c, Returned(Self), FALSE, _get_node_data(Self, current_node))
          [] part = "write" ->
               LET r == dispatch(Self, call.node_data, req.action_type, req.value,
                                 req.additional_data, now)
               IN Ran(c, IF r.raised = "" THEN r
                         ELSE [r EXCEPT !.raised = "SimulationError"],
                      TRUE, None)

ConcurrentNext ==
  \/ \E req \in ConcurrentRequests :
       Issue(req.action_type, req.value, req.additional_data)
  \/ \E c \in 1..Len(calls) : Run(c)

ConcurrentSpec == ConcurrentInit /\ [][ConcurrentNext]_vars

\* the orders in which n calls can be executed one after another
Orders(n) == {p \in [1..n -> 1..n] : \A i, j \in 1..n : p[i] = p[j] => i = j}

\* the engine after the first k calls of the order p, executed one after
\* another from the engine e
RECURSIVE OneAfterAnother(_, _, _)
OneAfterAnother(e, p, k) ==
  IF k = 0 THEN e
  ELSE LET req == calls[p[k]].request
       IN Service_execute_action(OneAfterAnother(e, p, k - 1), req.action_type,
                                 req.value, req.additional_data, now).e

---------------------------------------------------------------------------
(* Properties of the engines in the registry *)

\* the statuses of a simulation that runs or has ended
Statuses == {"active", "completed", "transferred"}

\* C22: the status of every engine held in the registry is one of active,
\* completed, transferred; the status the constructor sets is never that
\* of a registered engine.
C22_RegisteredStatus ==
  \A simulation_id \in DOMAIN active_simulations :
    active_simulations[simulation_id].status \in Statuses

\* get_simulation_status has reported a completed simulation
C22_Witness ==
  /\ last.op = "get_simulation_status"
  /\ last.raised = ""
  /\ last.result.status = "completed"
  /\ last.simulation_id \in DOMAIN active_simulations

---------------------------------------------------------------------------
(* Properties of the history and of the statuses, under Spec *)

\* C23: execution_history is append-only between resets: an ExecuteAction
\* leaves it as it was or adds one entry at its end, whose node_id is the
\* current node the call started from, and the entries before it stay; a
\* history that is not empty becomes empty only by Start or Reset.
C23_HistoryAppendOnly ==
  /\ [](Executed =>
          \/ execution_history = last.pre.execution_history
          \/ /\ Len(execution_history) = Len(last.pre.execution_history) + 1
             /\ SubSeq(execution_history, 1, Len(last.pre.execution_history))
                  = last.pre.execution_history
             /\ execution_history[Len(execution_history)].node_id
                  = last.pre.current_node
             /\ execution_history[Len(execution_history)].action_type
                  = last.action_type
             /\ execution_history[Len(execution_history)].value = last.value)
  /\ [][(execution_history # <<>> /\ execution_history' = <<>>) =>
          (/\ last'.op \in {"start_simulation", "reset_simulation"}
           /\ last'.raised = "")]_vars

\* a second step was recorded behind the first, at the node the call left
C23_Witness ==
  /\ Executed
  /\ Len(execution_history) = 2
  /\ Len(last.pre.execution_history) = 1
  /\ execution_history[2].node_id = last.pre.current_node
  /\ execution_history[1].node_id # execution_history[2].node_id
  /\ current_node # last.pre.current_node

\* C28: a simulation whose current node is of type start never leaves it
\* through ExecuteAction: every ExecuteAction there fails with
\* SimulationError and keeps the node and the status, and the node or the
\* status of such a simulation changes only in a Start or Reset that names
\* another start node.
C28_StartNodeIsNeverLeft ==
  /\ [](ExecutedAt(START) =>
          /\ last.raised = "SimulationError"
          /\ current_node = last.pre.current_node
          /\ status = last.pre.status)
  /\ [][(/\ status = "active"
         /\ TypeAt(current_node) = START
         /\ (current_node' # current_node \/ status' # status)) =>
          (/\ last'.op \in {"start_simulation", "reset_simulation"}
           /\ last'.raised = ""
           /\ Truthy(last'.start_node_id)
           /\ last'.start_node_id # current_node
           /\ current_node' = last'.start_node_id)]_vars

\* a simulation started at the default start node was asked to continue
C28_Witness ==
  /\ ExecutedAt(START)
  /\ last.action_type = "continue"
  /\ current_node = DefaultStartNode(scenario_data)
  /\ Len(execution_history) = 2
  /\ status = "active"

\* the current node has no first outgoing connection, or that connection
\* has no target: where _get_next_node finds nothing to go to
NoNextNode ==
  \/ Outgoing(current_node) = {}
  \/ ~Truthy(scenario_data.connections[Least(Outgoing(current_node))].target_node_id)

\* C29: a terminal status is consistent with the current node: transferred
\* implies a current node of type transfer and a transfer_target in the
\* session data; completed implies a current node of type end, with a
\* completion_time in the session data, or a message or input node that
\* has no next node.
C29_TerminalStatusMatchesNode ==
  /\ status = "transferred" =>
       /\ TypeAt(current_node) = TRANSFER
       /\ "transfer_target" \in DOMAIN session_data
  /\ status = "completed" =>
       \/ /\ TypeAt(current_node) = END
          /\ "completion_time" \in DOMAIN session_data
       \/ /\ TypeAt(current_node) \in {MESSAGE, INPUT}
          /\ NoNextNode

\* an input was accepted at an input node without a next node and
\* completed the simulation there
C29_Witness ==
  /\ Executed
  /\ last.raised = ""
  /\ last.pre.status = "active"
  /\ status = "completed"
  /\ TypeAt(current_node) = INPUT
  /\ current_node = last.pre.current_node

\* C30: completed and transferred are absorbing for ExecuteAction: on a
\* simulation with one of these statuses every ExecuteAction fails and
\* leaves the node, the status, the session data and the history as they
\* were, and such a status becomes active only by a Start or Reset.
C30_TerminalStatusAbsorbing ==
  /\ []((Executed /\ last.pre.status \in {"completed", "transferred"}) =>
          /\ last.raised = "SimulationError"
          /\ Snapshot(Self) = last.pre)
  /\ [][(status \in {"completed", "transferred"} /\ status' # status) =>
          (/\ last'.op \in {"start_simulation", "reset_simulation"}
           /\ last'.raised = ""
           /\ status' = "active")]_vars

\* an ExecuteAction was refused on a completed simulation with a history
C30_Witness ==
  /\ Executed
  /\ last.pre.status = "completed"
  /\ last.action_type = "end"
  /\ last.raised = "SimulationError"
  /\ Len(execution_history) = 2

---------------------------------------------------------------------------
(* PauseSpec: the engine of Spec with pause_simulation and                 *)
(* resume_simulation called on it between its other calls.                 *)

\* pause_simulation / resume_simulation on the registered engine:
\* engine.session_data["paused"] = paused
SetPaused(op, paused) ==
  /\ status # "idle"
  /\ session_data' = DictSet(session_data, "paused", paused)
  /\ last' = Call(op, None, "", None, Returned(Self), Snapshot(Self))
  /\ UNCHANGED <<scenario_data, now, current_node, execution_history, start_time,
                 status, registry_vars, concurrent_vars>>

PauseSimulation == SetPaused("pause_simulation", BoolV(TRUE))

ResumeSimulation == SetPaused("resume_simulation", BoolV(FALSE))

PauseNext ==
  \/ Next
  \/ PauseSimulation
  \/ ResumeSimulation

PauseSpec == Init /\ [][PauseNext]_vars

\* the engine e with the paused flag set to that value, and without it
Flagged(e, paused) == [e EXCEPT !.session_data = DictSet(@, "paused", paused)]

Unflagged(e) ==
  [e EXCEPT !.session_data = [k \in (DOMAIN @) \ {"paused"} |-> @[k]]]

\* the outcome of a call apart from the paused flag
Apart(r) == [raised |-> r.raised, e |-> Unflagged(r.e)]

\* C24: the paused flag does not block execution: in every state of the
\* engine and for every action, ExecuteAction on the paused simulation
\* has the outcome it has with the flag absent and with the flag false
\* (success or error, node, status and the rest of the state); pause and
\* resume change nothing but the flag.
C24_PausedDoesNotBlock ==
  /\ \A req \in ActionRequests :
       LET paused == Service_execute_action(Flagged(Self, BoolV(TRUE)), req.action_type,
                                            req.value, req.additional_data, now)
           resumed == Service_execute_action(Flagged(Self, BoolV(FALSE)), req.action_type,
                                             req.value, req.additional_data, now)
           absent == Service_execute_action(Unflagged(Self), req.action_type,
                                            req.value, req.additional_data, now)
       IN /\ Apart(paused) = Apart(absent)
          /\ Apart(resumed) = Apart(absent)
          /\ Get(paused.e.session_data, "paused", None) = BoolV(TRUE)
  /\ last.op \in {"pause_simulation", "resume_simulation"} =>
       /\ current_node = last.pre.current_node
       /\ status = last.pre.status
       /\ execution_history = last.pre.execution_history
       /\ session_data =
            DictSet(last.pre.session_data, "paused",
                    BoolV(last.op = "pause_simulation"))
  /\ (Executed /\ last.raised = "") =>
       Get(session_data, "paused", None) = Get(last.pre.session_data, "paused", None)

\* a paused simulation took an input and moved on
C24_Witness ==
  /\ Executed
  /\ Get(last.pre.session_data, "paused", None) = BoolV(TRUE)
  /\ last.action_type = "input"
  /\ last.raised = ""
  /\ current_node # last.pre.current_node
  /\ status = "active"

---------------------------------------------------------------------------
(* StateSpec: the engine of Spec with get_simulation_status called on it   *)
(* between its other calls.                                                *)

\* get_simulation_status on the registered engine: the state that
\* engine._get_current_state reports
GetState ==
  /\ status # "idle"
  /\ last' = Call("get_simulation_status", None, "", None, Returned(Self), Snapshot(Self))
             @@ [result |-> _get_current_state(Self, now)]
  /\ UNCHANGED <<scenario_data, now, engine_vars, registry_vars, concurrent_vars>>

StateNext ==
  \/ Next
  \/ GetState

StateSpec == Init /\ [][StateNext]_vars

\* the action types of a list of actions, in order
ActionTypes(actions) == [k \in 1..Len(actions) |-> actions[k].type]

\* the keys of the branches of the current node, in order
BranchKeys ==
  LET branches == Get(NodeAt(current_node).config, "branches", <<>>)
  IN [k \in 1..Len(branches) |-> branches[k].key]

\* C27: available_actions is a function of the type and the config of the
\* current node only: message gives exactly one continue, branch one
\* select per entry of config.branches in order, input one input, transfer
\* one transfer, end one end, and a node of type start or a current node
\* id that names no node the empty list, whatever the status, the session
\* data and the history.
C27_AvailableActionsByNodeType ==
  last.op = "get_simulation_status" =>
    LET actions == last.result.available_actions
        node_type == TypeAt(current_node)
    IN /\ node_type = MESSAGE => ActionTypes(actions) = <<"continue">>
       /\ node_type = BRANCH =>
            /\ ActionTypes(actions) = [k \in 1..Len(BranchKeys) |-> "select"]
            /\ [k \in 1..Len(actions) |-> actions[k].key] = BranchKeys
       /\ node_type = INPUT => ActionTypes(actions) = <<"input">>
       /\ node_type = TRANSFER => ActionTypes(actions) = <<"transfer">>
       /\ node_type = END => ActionTypes(actions) = <<"end">>
       /\ node_type = START => actions = <<>>
       /\ NodeAt(current_node) = None => actions = <<>>

\* the state of a transferred simulation with session data and a history
\* was reported, with the transfer action
C27_Witness ==
  /\ last.op = "get_simulation_status"
  /\ status = "transferred"
  /\ "transfer_target" \in DOMAIN session_data
  /\ Len(execution_history) = 2
  /\ ActionTypes(last.result.available_actions) = <<"transfer">>

---------------------------------------------------------------------------
(* ValidateSpec: validate_simulation on simulations of small scenarios of  *)
(* every shape: up to MaxNodes nodes of type start, message or end, named  *)
(* n1, n2, ... in list order, and up to MaxConnections connections between *)
(* n1, n2 and the id of a node that was deleted.  A simulation is started  *)
(* without a start node id or at n1 or n2, continued, and validated.       *)

MaxNodes == 3

MaxConnections == 2

ValidateNodeTypes == {START, MESSAGE, END}

Endpoints == {"n1", "n2", "gone"}

NodeLists ==
  {[k \in 1..Len(types) |-> Node("n" \o NatToStr(k), types[k], EmptyDict)] :
     types \in UNION {[1..n -> ValidateNodeTypes] : n \in 0..MaxNodes}}

ConnectionLists ==
  {[k \in 1..Len(ends) |-> Connection(ends[k][1], ends[k][2])] :
     ends \in UNION {[1..n -> Endpoints \X Endpoints] : n \in 0..MaxConnections}}

ValidateScenarios ==
  {[nodes |-> nodes, connections |-> connections] :
     nodes \in NodeLists, connections \in ConnectionLists}

ValidateStartNodeIds == {None, StrV("n1"), StrV("n2")}

ValidateRequests == {Request("continue", None, None)}

ValidateInit ==
  /\ scenario_data \in ValidateScenarios
  /\ now = 0
  /\ NoEngine
  /\ last = Call("__init__", None, "", None, Returned(Self), Brief(Self))
  /\ NoRegistry
  /\ NoCalls

\* validate_simulation on the registered engine
ValidateSimulation ==
  /\ status # "idle"
  /\ LET engine == Self @@ [config |-> EmptyDict, id |-> 1]
         o == SimulationService_validate_simulation(
                Register(SimulationService_init, "sim-1", engine), "sim-1")
     IN last' = Call("validate_simulation", None, "", None, Returned(Self), Snapshot(Self))
                @@ [result |-> o.result]
  /\ UNCHANGED <<scenario_data, now, engine_vars, registry_vars, concurrent_vars>>

ValidateNext ==
  \/ \E start_node_id \in ValidateStartNodeIds : StartSimulation(start_node_id)
  \/ \E req \in ValidateRequests :
       ExecuteAction(req.action_type, req.value, req.additional_data)
  \/ ValidateSimulation

ValidateSpec == ValidateInit /\ [][ValidateNext]_vars

Validated == last.op = "validate_simulation"

NoStartNode == \A k \in 1..Len(scenario_data.nodes) : scenario_data.nodes[k].node_type # START

SeveralStartNodes ==
  \E j, k \in 1..Len(scenario_data.nodes) :
    /\ j # k
    /\ scenario_data.nodes[j].node_type = START
    /\ scenario_data.nodes[k].node_type = START

NoEndNode == \A k \in 1..Len(scenario_data.nodes) : scenario_data.nodes[k].node_type # END

UnresolvedEndpoint ==
  \E k \in 1..Len(scenario_data.connections) :
    \/ scenario_data.connections[k].source_node_id \notin NodeIds(scenario_data)
    \/ scenario_data.connections[k].target_node_id \notin NodeIds(scenario_data)

IsolatedNode ==
  \E node_id \in NodeIds(scenario_data) :
    \A k \in 1..Len(scenario_data.connections) :
      /\ scenario_data.connections[k].source_node_id # node_id
      /\ scenario_data.connections[k].target_node_id # node_id

Warned(kind) ==
  \E k \in 1..Len(last.result.warnings) : last.result.warnings[k].kind = kind

\* C25: Validate reports is_valid = true exactly when its errors list is
\* empty, and the errors list is non-empty exactly when the scenario has
\* no node of type start or a connection has a source or target that is
\* the id of no node; several start nodes, a missing end node and isolated
\* nodes give a warning each and leave is_valid as it is.
C25_ValidIffNoStructuralError ==
  Validated =>
    /\ last.result.is_valid <=> (last.result.errors = <<>>)
    /\ (last.result.errors # <<>>) <=> (NoStartNode \/ UnresolvedEndpoint)
    /\ SeveralStartNodes <=> Warned("several start nodes")
    /\ NoEndNode <=> Warned("no end node")
    /\ IsolatedNode <=> Warned("isolated nodes")

\* a scenario with two start nodes, no end node and isolated nodes was
\* found valid, with three warnings
C25_Witness ==
  /\ Validated
  /\ SeveralStartNodes
  /\ NoEndNode
  /\ IsolatedNode
  /\ last.result.is_valid
  /\ Len(last.result.warnings) = 3

\* the distinct node ids in the execution history
ExecutedNodes == {execution_history[k].node_id : k \in 1..Len(execution_history)}

---------------------------------------------------------------------------
(* RaceSpec: start_simulation, get_simulation_status and stop_simulation   *)
(* coroutines in flight on one service object.  start_simulation awaits    *)
(* get_scenario_with_details, a database query, and gives way to the other *)
(* coroutines there; what follows the await, up to the return, contains    *)
(* no await and runs in one piece.  get_simulation_status and              *)
(* stop_simulation contain no await.  A request that arrives creates a     *)
(* call; the event loop then runs a call that is in flight up to its next  *)
(* await or to its end.                                                    *)

MaxCalls == 3

\* Faulty variant of uuid4: the id is the same in every call.
uuid4_fixed(taken) == "sim-1"

\* str(uuid.uuid4()): an id that was never generated before
uuid4(taken) == "sim-" \o NatToStr(Cardinality(taken) + 1)

\* the number of parts into which its awaits cut the body of a method:
\* start_simulation has one await, the other two have none
Parts(op) == IF op = "start_simulation" THEN 2 ELSE 1

\* the start node ids of the concurrent starts
RaceStartNodeIds == {None, StrV("t")}

\* the calls that have not ended
Pending == {c \in 1..Len(calls) : calls[c].pc < Parts(calls[c].op)}

RaceInit ==
  /\ RegistryInit

\* a request arrives: its coroutine is created.  overlaps tells whether
\* another call was in flight then.
Arrive(op, simulation_id, start_node_id) ==
  /\ Len(calls) < MaxCalls
  /\ calls' = Append(calls, [op |-> op,
                             simulation_id |-> simulation_id,
                             start_node_id |-> start_node_id,
                             pc |-> 0,
                             scenario |-> None,
                             raised |-> "",
                             overlaps |-> Pending # {}])
  /\ UNCHANGED <<scenario_data, now, last, engine_vars, registry_vars, batch>>

ArriveStart(start_node_id) == Arrive("start_simulation", "", start_node_id)

ArriveStatus(simulation_id) == Arrive("get_simulation_status", simulation_id, None)

ArriveStop(simulation_id) == Arrive("stop_simulation", simulation_id, None)

\* call c has run a part that leaves outcome o
Resumed(c, o, simulation_id) ==
  /\ SetService(o.S)
  /\ last' = ServiceCall(calls[c].op, "service", simulation_id,
                         calls[c].start_node_id, "", None, o, Service)
  /\ calls' = [calls EXCEPT ![c].pc = @ + 1,
                            ![c].raised = o.raised,
                            ![c].simulation_id = simulation_id]
  /\ UNCHANGED <<scenario_data, now, engine_vars, batch>>

\* start_simulation up to its await: the query for the scenario is sent
RunFetch(c) ==
  /\ c \in Pending
  /\ calls[c].op = "start_simulation"
  /\ calls[c].pc = 0
  /\ calls' = [calls EXCEPT ![c].pc = 1,
                            ![c].scenario = get_scenario_with_details(KnownScenario)]
  /\ UNCHANGED <<scenario_data, now, last, engine_vars, registry_vars, batch>>

\* start_simulation from its await to its end: the start node is
\* resolved, the id generated, the engine constructed, started and stored
RunRegister(c) ==
  /\ c \in Pending
  /\ calls[c].op = "start_simulation"
  /\ calls[c].pc = 1
  /\ LET simulation_id == uuid4(DOMAIN issued)
         o == SimulationService_start_simulation(
                Service, calls[c].scenario, calls[c].start_node_id, None,
                simulation_id,
                NewAddress({active_simulations[k].id : k \in DOMAIN active_simulations}),
                now)
     IN /\ Resumed(c, o, IF o.raised = "" THEN simulation_id ELSE "")
        /\ issued' = IF o.raised = ""
                     THEN DictSet(issued, simulation_id, "started") ELSE issued

\* get_simulation_status, in one piece
RunStatus(c) ==
  /\ c \in Pending
  /\ calls[c].op = "get_simulation_status"
  /\ Resumed(c, SimulationService_get_simulation_status(Service, calls[c].simulation_id, now),
             calls[c].simulation_id)
  /\ UNCHANGED issued

\* stop_simulation, in one piece
RunStop(c) ==
  /\ c \in Pending
  /\ calls[c].op = "stop_simulation"
  /\ Resumed(c, SimulationService_stop_simulation(Service, calls[c].simulation_id),
             calls[c].simulation_id)
  /\ issued' = IF calls[c].simulation_id \in DOMAIN issued
               THEN [issued EXCEPT ![calls[c].simulation_id] = "stopped"] ELSE issued

RaceNext ==
  \/ \E start_node_id \in RaceStartNodeIds : ArriveStart(start_node_id)
  \/ \E simulation_id \in IssuedIds : ArriveStatus(simulation_id)
  \/ \E simulation_id \in IssuedIds : ArriveStop(simulation_id)
  \/ \E c \in 1..Len(calls) : RunFetch(c)
  \/ \E c \in 1..Len(calls) : RunRegister(c)
  \/ \E c \in 1..Len(calls) : RunStatus(c)
  \/ \E c \in 1..Len(calls) : RunStop(c)

RaceSpec == RaceInit /\ [][RaceNext]_vars

\* the calls of start_simulation that have returned an id
Starts ==
  {c \in 1..Len(calls) :
     /\ calls[c].op = "start_simulation"
     /\ calls[c].pc = Parts("start_simulation")
     /\ calls[c].raised = ""}

====
